---------------------------- MODULE Spec2Model ----------------------------
(***************************************************************************)
(* Model of the workspace operator's reconciler                            *)
(* (controllers/workspace_controller.go).                                  *)
(*                                                                         *)
(* The cluster is a store of objects keyed by (kind, namespace, name).     *)
(* One pass of WorkspaceReconciler.Reconcile runs to completion as one     *)
(* action: it loads the Workspace, checks the eight sub-resources in the   *)
(* code's order, creates the first one missing and returns, or corrects    *)
(* drift.  Around it, external actors edit and delete objects and edit the *)
(* Workspace, and the store may fail one call of a pass.                   *)
(***************************************************************************)
EXTENDS Integers, Sequences, FiniteSets, TLC

VARIABLES
    workspaces,   \* the Workspace objects: id -> spec, for the ids that exist
    store,        \* the cluster: key -> object, for the keys that exist
    lastPass,     \* what the most recent pass did (its observable record)
    quiet,        \* no external action happened since the most recent pass
    lastExt,      \* the most recent external action
    coldPasses,   \* passes since the spec got its name, or -1 once disturbed
    extLeft,      \* external actions still allowed
    passTick      \* flips at every pass in which no store call fails

vars == <<workspaces, store, lastPass, quiet, lastExt, coldPasses, extLeft, passTick>>

---------------------------------------------------------------------------
(* Bounds of the model. *)

\* External actions (edits, deletions, Workspace changes) in one behaviour.
MaxExt == 1

\* The pass counter coldPasses saturates here.
MaxPasses == 9

---------------------------------------------------------------------------
(* Strings with structure.  A quantity string is a sequence of characters, *)
(* so that parsing is computed.                                            *)

Digits == {"0", "1", "2", "3", "4", "5", "6", "7", "8", "9"}

DigitValue(c) ==
    CASE c = "0" -> 0 [] c = "1" -> 1 [] c = "2" -> 2 [] c = "3" -> 3
      [] c = "4" -> 4 [] c = "5" -> 5 [] c = "6" -> 6 [] c = "7" -> 7
      [] c = "8" -> 8 [] c = "9" -> 9

\* The length of the longest prefix of s made of digits.
RECURSIVE DigitPrefixLen(_)
DigitPrefixLen(s) ==
    IF s = <<>> \/ Head(s) \notin Digits THEN 0 ELSE 1 + DigitPrefixLen(Tail(s))

\* The number a sequence of digits denotes.
RECURSIVE DigitsToNat(_)
DigitsToNat(s) ==
    IF s = <<>> THEN 0
    ELSE 10 * DigitsToNat(SubSeq(s, 1, Len(s) - 1)) + DigitValue(s[Len(s)])

\* The suffixes of a quantity this model knows, with the factor each applies
\* to the number, in thousandths of a unit.
SuffixMilli(suffix) ==
    CASE suffix = <<>>           -> 1000
      [] suffix = <<"m">>        -> 1
      [] suffix = <<"k">>        -> 1000 * 1000
      [] suffix = <<"K", "i">>   -> 1024 * 1000
      [] OTHER                   -> 0

\* quotaResource.ParseQuantity on the grammar <digits><suffix>: the value in
\* thousandths, or an error when there is no digit or the suffix is unknown.
ParseQuantity(s) ==
    LET n      == DigitPrefixLen(s)
        suffix == SubSeq(s, n + 1, Len(s))
    IN  IF n = 0 \/ SuffixMilli(suffix) = 0
        THEN [ok |-> FALSE, milli |-> 0]
        ELSE [ok |-> TRUE, milli |-> DigitsToNat(SubSeq(s, 1, n)) * SuffixMilli(suffix)]

\* A comparison of the two texts instead of the two values.
CmpTextual(a, b) ==
    IF a = b THEN 0 ELSE 1

\* Quantity.Cmp: -1, 0 or 1, by value.
Cmp(a, b) ==
    LET x == ParseQuantity(a).milli
        y == ParseQuantity(b).milli
    IN  IF x < y THEN -1 ELSE IF x > y THEN 1 ELSE 0

\* The zero Quantity: what a missing entry of a hard-limit map reads as.
ZeroQuantity == <<"0">>

---------------------------------------------------------------------------
(* Objects. *)

EmptyMap == [k \in {} |-> ""]

ResourceCPU == "cpu"
ResourceMemory == "memory"
ResourceRequestsStorage == "requests.storage"

NoRoleRef == [Kind |-> "", APIGroup |-> "", Name |-> ""]

\* The zero value of an object, as declared before r.Get fills it.
ZeroObject ==
    [labels |-> EmptyMap, annotations |-> EmptyMap, ownerReferences |-> <<>>,
     finalizers |-> <<>>, hard |-> EmptyMap, rules |-> <<>>, subjects |-> <<>>,
     roleRef |-> NoRoleRef]

\* A projector that sets no ownership link.
SetControllerReferenceNone(id, obj) ==
    obj

\* ctrl.SetControllerReference: the ownership link to the Workspace.
SetControllerReference(id, obj) ==
    [obj EXCEPT !.ownerReferences =
        <<[Kind |-> "Workspace", Name |-> id, Controller |-> TRUE]>>]

\* An order that checks the ResourceQuota before the Namespace.
SlotsQuotaFirst ==
    <<"resourceQuota", "namespace", "adminRole", "editorRole", "viewerRole",
      "adminRoleBinding", "editorRoleBinding", "viewerRoleBinding">>

\* The eight local objects of Reconcile, in the order the code checks them.
Slots ==
    <<"namespace", "resourceQuota", "adminRole", "editorRole", "viewerRole",
      "adminRoleBinding", "editorRoleBinding", "viewerRoleBinding">>

SlotSet == {Slots[i] : i \in 1..Len(Slots)}

Tiers == <<"admin", "editor", "viewer">>

\* Keys that put the namespaced objects into the namespace default.
KeyOfInDefault(name, s) ==
    IF s = "namespace" THEN [kind |-> "Namespace", namespace |-> "", name |-> name]
    ELSE [kind      |-> IF s = "resourceQuota" THEN "ResourceQuota"
                        ELSE IF s \in {"adminRole", "editorRole", "viewerRole"}
                        THEN "Role" ELSE "RoleBinding",
          namespace |-> "default",
          name      |-> name \o "-" \o s]

\* The key (kind, namespace, name) of a slot's object for spec.name = name.
KeyOf(name, s) ==
    CASE s = "namespace" ->
           [kind |-> "Namespace", namespace |-> "", name |-> name]
      [] s = "resourceQuota" ->
           [kind |-> "ResourceQuota", namespace |-> name, name |-> name \o "-quota"]
      [] s = "adminRole" ->
           [kind |-> "Role", namespace |-> name, name |-> name \o "-admin"]
      [] s = "editorRole" ->
           [kind |-> "Role", namespace |-> name, name |-> name \o "-editor"]
      [] s = "viewerRole" ->
           [kind |-> "Role", namespace |-> name, name |-> name \o "-viewer"]
      [] s = "adminRoleBinding" ->
           [kind |-> "RoleBinding", namespace |-> name, name |-> name \o "-admin-rb"]
      [] s = "editorRoleBinding" ->
           [kind |-> "RoleBinding", namespace |-> name, name |-> name \o "-editor-rb"]
      [] s = "viewerRoleBinding" ->
           [kind |-> "RoleBinding", namespace |-> name, name |-> name \o "-viewer-rb"]

---------------------------------------------------------------------------
(* The Desired-State Projector: the eight ...ForWorkspace functions.  Each *)
(* returns [ok, obj]; only the quota's can fail (a quantity that does not  *)
(* parse).                                                                 *)

\* An ObjectMeta that leaves the labels out.
ObjectMetaNoLabels(ws) ==
    [ZeroObject EXCEPT !.annotations = ws.annotations]

ObjectMeta(ws) ==
    [ZeroObject EXCEPT !.labels = ws.labels, !.annotations = ws.annotations]

namespaceForWorkspace(id, ws) ==
    [ok  |-> TRUE,
     obj |-> SetControllerReference(id,
                [ObjectMeta(ws) EXCEPT !.finalizers = <<"kubernetes">>])]

resourceQuotaCPUForWorkspace(ws) == ParseQuantity(ws.resources.cpu)

resourceQuotaMemoryForWorkspace(ws) == ParseQuantity(ws.resources.memory)

resourceQuotaStorageForWorkspace(ws) == ParseQuantity(ws.resources.disk)

\* A quota projector that does not parse the quantities it copies.
resourceQuotaUnparsed(id, ws) ==
    [ok  |-> TRUE,
     obj |-> SetControllerReference(id,
                [ObjectMeta(ws) EXCEPT !.hard =
                    (ResourceCPU :> ws.resources.cpu)
                    @@ (ResourceMemory :> ws.resources.memory)
                    @@ (ResourceRequestsStorage :> ws.resources.disk)])]

resourceQuotaForWorkspace(id, ws) ==
    IF ~resourceQuotaCPUForWorkspace(ws).ok THEN [ok |-> FALSE, obj |-> ZeroObject]
    ELSE IF ~resourceQuotaMemoryForWorkspace(ws).ok THEN [ok |-> FALSE, obj |-> ZeroObject]
    ELSE IF ~resourceQuotaStorageForWorkspace(ws).ok THEN [ok |-> FALSE, obj |-> ZeroObject]
    ELSE [ok  |-> TRUE,
          obj |-> SetControllerReference(id,
                     [ObjectMeta(ws) EXCEPT !.hard =
                         (ResourceCPU :> ws.resources.cpu)
                         @@ (ResourceMemory :> ws.resources.memory)
                         @@ (ResourceRequestsStorage :> ws.resources.disk)])]

AdminVerbs == <<"get", "list", "watch", "create", "update", "patch", "delete">>

EditorVerbs == <<"get", "list", "watch", "create", "update", "patch">>

ViewerVerbs == <<"get", "list", "watch">>

PolicyRule(verbs) ==
    [Verbs |-> verbs, APIGroups |-> <<"">>, Resources |-> <<"*">>]

adminRoleForWorkspace(id, ws) ==
    [ok  |-> TRUE,
     obj |-> SetControllerReference(id,
                [ObjectMeta(ws) EXCEPT !.rules = <<PolicyRule(AdminVerbs)>>])]

editorRoleForWorkspace(id, ws) ==
    [ok  |-> TRUE,
     obj |-> SetControllerReference(id,
                [ObjectMeta(ws) EXCEPT !.rules = <<PolicyRule(EditorVerbs)>>])]

viewerRoleForWorkspace(id, ws) ==
    [ok  |-> TRUE,
     obj |-> SetControllerReference(id,
                [ObjectMeta(ws) EXCEPT !.rules = <<PolicyRule(ViewerVerbs)>>])]

Subject(name) ==
    [Kind |-> "User", Name |-> name, APIGroup |-> "rbac.authorization.k8s.io"]

RoleRef(name) ==
    [Kind |-> "Role", APIGroup |-> "rbac.authorization.k8s.io", Name |-> name]

adminRoleBindingForWorkspace(id, ws) ==
    [ok  |-> TRUE,
     obj |-> SetControllerReference(id,
                [ObjectMeta(ws) EXCEPT !.subjects = <<Subject(ws.users.admin)>>,
                                       !.roleRef = RoleRef(ws.name \o "-admin")])]

editorRoleBindingForWorkspace(id, ws) ==
    [ok  |-> TRUE,
     obj |-> SetControllerReference(id,
                [ObjectMeta(ws) EXCEPT !.subjects = <<Subject(ws.users.editor)>>,
                                       !.roleRef = RoleRef(ws.name \o "-editor")])]

\* A viewer binding that refers to the editor Role.
viewerRoleBindingRefsEditor(id, ws) ==
    [ok  |-> TRUE,
     obj |-> SetControllerReference(id,
                [ObjectMeta(ws) EXCEPT !.subjects = <<Subject(ws.users.viewer)>>,
                                       !.roleRef = RoleRef(ws.name \o "-editor")])]

viewerRoleBindingForWorkspace(id, ws) ==
    [ok  |-> TRUE,
     obj |-> SetControllerReference(id,
                [ObjectMeta(ws) EXCEPT !.subjects = <<Subject(ws.users.viewer)>>,
                                       !.roleRef = RoleRef(ws.name \o "-viewer")])]

\* The projector Reconcile calls for a slot.
Define(id, ws, s) ==
    CASE s = "namespace"         -> namespaceForWorkspace(id, ws)
      [] s = "resourceQuota"     -> resourceQuotaForWorkspace(id, ws)
      [] s = "adminRole"         -> adminRoleForWorkspace(id, ws)
      [] s = "editorRole"        -> editorRoleForWorkspace(id, ws)
      [] s = "viewerRole"        -> viewerRoleForWorkspace(id, ws)
      [] s = "adminRoleBinding"  -> adminRoleBindingForWorkspace(id, ws)
      [] s = "editorRoleBinding" -> editorRoleBindingForWorkspace(id, ws)
      [] s = "viewerRoleBinding" -> viewerRoleBindingForWorkspace(id, ws)

---------------------------------------------------------------------------
(* The Resource Store Adapter as one pass sees it.  A pass threads a       *)
(* context c through its steps:                                            *)
(*   st      the store, as changed so far by this pass                     *)
(*   mem     the pass's local objects, one per slot                        *)
(*   calls   store calls made so far; call number failAt fails             *)
(*   writes  the creates and updates issued, in order                      *)
(*   reads   the keys of the sub-resources it asked the store for          *)
(*   racer   objects another writer stores right after this pass was told  *)
(*           they are absent (none, unless the pass is raced)              *)
(*   full    it ran to the end of drift correction                         *)
(*   status  "run" while running, then "ok", "err" or "panic"              *)

\* ctrl.Result{RequeueAfter: 3 * time.Second}
RequeueAfter == 3

\* ctrl.Result{}
NoRequeue == 0

NewContext(st) ==
    [st |-> st, mem |-> [s \in SlotSet |-> ZeroObject],
     snapLabels |-> [s \in SlotSet |-> EmptyMap],
     snapAnnotations |-> [s \in SlotSet |-> EmptyMap],
     calls |-> 0, writes |-> <<>>, reads |-> <<>>, status |-> "run",
     requeue |-> NoRequeue, injected |-> FALSE, found |-> FALSE, full |-> FALSE,
     racer |-> [k \in {} |-> ZeroObject]]

\* return ctrl.Result{...}, err
Return(c, status, requeue) ==
    [c EXCEPT !.status = status, !.requeue = requeue]

\* An r.Get whose transient error is taken for NotFound.
ClientGetErrAsNotFound(c, key, failAt) ==
    LET c1 == [c EXCEPT !.calls = @ + 1, !.reads = Append(@, key)]
    IN  IF c1.calls = failAt
        THEN [c |-> [c1 EXCEPT !.injected = TRUE], err |-> "NotFound", obj |-> ZeroObject]
        ELSE IF key \in DOMAIN c.st
        THEN [c |-> c1, err |-> "", obj |-> c.st[key]]
        ELSE [c |-> c1, err |-> "NotFound", obj |-> ZeroObject]

\* r.Get of a sub-resource: the object, NotFound, or a transient error.
ClientGet(c, key, failAt) ==
    LET c1 == [c EXCEPT !.calls = @ + 1, !.reads = Append(@, key)]
    IN  IF c1.calls = failAt
        THEN [c |-> [c1 EXCEPT !.injected = TRUE], err |-> "Internal", obj |-> ZeroObject]
        ELSE IF key \in DOMAIN c.st
        THEN [c |-> c1, err |-> "", obj |-> c.st[key]]
        ELSE [c |-> c1, err |-> "NotFound", obj |-> ZeroObject]

\* A create that replaces an object already stored under the key.
ClientCreateOverwrites(c, key, obj, failAt) ==
    LET c1  == [c EXCEPT !.calls = @ + 1]
        err == IF c1.calls = failAt THEN "Internal" ELSE ""
        c2  == [c1 EXCEPT !.writes = Append(@, [op |-> "create", key |-> key,
                                                 obj |-> obj, err |-> err,
                                                 field |-> ""]),
                          !.injected = @ \/ (c1.calls = failAt)]
    IN  IF err # "" THEN [c |-> c2, err |-> err]
        ELSE [c |-> [c2 EXCEPT !.st = (key :> obj) @@ @], err |-> ""]

\* r.Create: the object is stored, or AlreadyExists, or a transient error.
ClientCreate(c, key, obj, failAt) ==
    LET c1  == [c EXCEPT !.calls = @ + 1]
        err == IF c1.calls = failAt THEN "Internal"
               ELSE IF key \in DOMAIN c.st THEN "AlreadyExists"
               ELSE ""
        c2  == [c1 EXCEPT !.writes = Append(@, [op |-> "create", key |-> key,
                                                 obj |-> obj, err |-> err,
                                                 field |-> ""]),
                          !.injected = @ \/ (c1.calls = failAt)]
    IN  IF err # "" THEN [c |-> c2, err |-> err]
        ELSE [c |-> [c2 EXCEPT !.st = (key :> obj) @@ @], err |-> ""]

\* An update the store acknowledges and then loses.
ClientUpdateLost(c, key, obj, field, failAt) ==
    LET c1  == [c EXCEPT !.calls = @ + 1]
        err == IF c1.calls = failAt THEN "Internal"
               ELSE IF key \notin DOMAIN c.st THEN "NotFound"
               ELSE ""
    IN  [c |-> [c1 EXCEPT !.writes = Append(@, [op |-> "update", key |-> key,
                                                 obj |-> obj, err |-> err,
                                                 field |-> field]),
                          !.injected = @ \/ (c1.calls = failAt)],
         err |-> err]

\* r.Update: the stored object is replaced by obj, or NotFound, or a
\* transient error.  field names what the caller changed in obj.
ClientUpdate(c, key, obj, field, failAt) ==
    LET c1  == [c EXCEPT !.calls = @ + 1]
        err == IF c1.calls = failAt THEN "Internal"
               ELSE IF key \notin DOMAIN c.st THEN "NotFound"
               ELSE ""
        c2  == [c1 EXCEPT !.writes = Append(@, [op |-> "update", key |-> key,
                                                 obj |-> obj, err |-> err,
                                                 field |-> field]),
                          !.injected = @ \/ (c1.calls = failAt)]
    IN  IF err # "" THEN [c |-> c2, err |-> err]
        ELSE [c |-> [c2 EXCEPT !.st = [@ EXCEPT ![key] = obj]], err |-> ""]

\* What happens in the store between a Get that answered NotFound and the
\* Create that follows it: another writer may store the object.
Interleave(c, key) ==
    IF key \in DOMAIN c.racer /\ key \notin DOMAIN c.st
    THEN [c EXCEPT !.st = (key :> c.racer[key]) @@ @]
    ELSE c

---------------------------------------------------------------------------
(* The steps of Reconcile. *)

\* As EnsureStep, but the pass goes on after a successful create.
EnsureStepGoesOn(c, id, ws, s, failAt) ==
    LET key == KeyOf(ws.name, s)
        g   == ClientGet(c, key, failAt)
    IN  IF g.err = "NotFound"
        THEN LET d == Define(id, ws, s)
             IN  IF ~d.ok THEN Return(g.c, "err", NoRequeue)
                 ELSE LET cr == ClientCreate(g.c, key, d.obj, failAt)
                      IN  IF cr.err # "" THEN Return(cr.c, "err", NoRequeue)
                          ELSE [cr.c EXCEPT !.mem = [@ EXCEPT ![s] = d.obj]]
        ELSE IF g.err # "" THEN Return(g.c, "err", NoRequeue)
        ELSE [g.c EXCEPT !.mem = [@ EXCEPT ![s] = g.obj]]

\* As EnsureStep, but a create schedules no re-trigger.
EnsureStepNoRequeue(c, id, ws, s, failAt) ==
    LET key == KeyOf(ws.name, s)
        g   == ClientGet(c, key, failAt)
    IN  IF g.err = "NotFound"
        THEN LET d == Define(id, ws, s)
             IN  IF ~d.ok THEN Return(g.c, "err", NoRequeue)
                 ELSE LET cr == ClientCreate(g.c, key, d.obj, failAt)
                      IN  IF cr.err # "" THEN Return(cr.c, "err", NoRequeue)
                          ELSE Return(cr.c, "ok", NoRequeue)
        ELSE IF g.err # "" THEN Return(g.c, "err", NoRequeue)
        ELSE [g.c EXCEPT !.mem = [@ EXCEPT ![s] = g.obj]]

\* An existence check that rejects a sub-resource another Workspace owns.
EnsureStepRejectsForeign(c, id, ws, s, failAt) ==
    LET key == KeyOf(ws.name, s)
        g   == ClientGet(c, key, failAt)
    IN  IF g.err = "NotFound"
        THEN LET d == Define(id, ws, s)
             IN  IF ~d.ok THEN Return(g.c, "err", NoRequeue)
                 ELSE LET cr == ClientCreate(Interleave(g.c, key), key, d.obj, failAt)
                      IN  IF cr.err # "" THEN Return(cr.c, "err", NoRequeue)
                          ELSE Return(cr.c, "ok", RequeueAfter)
        ELSE IF g.err # "" THEN Return(g.c, "err", NoRequeue)
        ELSE IF \E i \in 1..Len(g.obj.ownerReferences) :
                    g.obj.ownerReferences[i].Name # id
        THEN Return(g.c, "err", NoRequeue)
        ELSE [g.c EXCEPT !.mem = [@ EXCEPT ![s] = g.obj]]

\* Check that a sub-resource exists; create it and stop the pass if not.
EnsureStep(c, id, ws, s, failAt) ==
    LET key == KeyOf(ws.name, s)
        g   == ClientGet(c, key, failAt)
    IN  IF g.err = "NotFound"
        THEN LET d == Define(id, ws, s)
             IN  IF ~d.ok THEN Return(g.c, "err", NoRequeue)
                 ELSE LET cr == ClientCreate(Interleave(g.c, key), key, d.obj, failAt)
                      IN  IF cr.err # "" THEN Return(cr.c, "err", NoRequeue)
                          ELSE Return(cr.c, "ok", RequeueAfter)
        ELSE IF g.err # "" THEN Return(g.c, "err", NoRequeue)
        ELSE [g.c EXCEPT !.mem = [@ EXCEPT ![s] = g.obj]]

\* Every key of desired always counted as drifting.
DriftedKeysAll(desired, live) ==
    DOMAIN desired

\* A comparison that also counts the keys only live has.
DriftedKeysBothWays(desired, live) ==
    {k \in DOMAIN desired \cup DOMAIN live :
        k \notin DOMAIN live \/ k \notin DOMAIN desired \/ live[k] # desired[k]}

\* The keys the loop "for k, v := range desired" finds absent or different in
\* live.
DriftedKeys(desired, live) ==
    {k \in DOMAIN desired : k \notin DOMAIN live \/ live[k] # desired[k]}

\* As UpdateTimes, but a failing update does not end the pass.
RECURSIVE UpdateTimesGoesOn(_, _, _, _, _, _, _, _)
UpdateTimesGoesOn(c, n, s, key, field, value, tag, failAt) ==
    IF n = 0 THEN c
    ELSE LET obj == [c.mem[s] EXCEPT ![field] = value]
             u   == ClientUpdate(c, key, obj, tag, failAt)
         IN  UpdateTimesGoesOn([u.c EXCEPT !.mem = [@ EXCEPT ![s] = obj]],
                               n - 1, s, key, field, value, tag, failAt)

\* An update issued once, however many keys drift.
UpdateTimesOnce(c, n, s, key, field, value, tag, failAt) ==
    IF n = 0 THEN c
    ELSE LET obj == [c.mem[s] EXCEPT ![field] = value]
             u   == ClientUpdate(c, key, obj, tag, failAt)
         IN  IF u.err # "" THEN Return(u.c, "err", NoRequeue)
             ELSE [u.c EXCEPT !.mem = [@ EXCEPT ![s] = obj]]

\* Set field of the slot's local object to value and r.Update it, n times
\* (once per drifting key); the first failing update ends the pass.
RECURSIVE UpdateTimes(_, _, _, _, _, _, _, _)
UpdateTimes(c, n, s, key, field, value, tag, failAt) ==
    IF n = 0 THEN c
    ELSE LET obj == [c.mem[s] EXCEPT ![field] = value]
             u   == ClientUpdate(c, key, obj, tag, failAt)
         IN  IF u.err # "" THEN Return(u.c, "err", NoRequeue)
             ELSE UpdateTimes([u.c EXCEPT !.mem = [@ EXCEPT ![s] = obj]],
                              n - 1, s, key, field, value, tag, failAt)

\* workspaceLabels, namespaceLabels, ... : the label maps as read.
SnapLabelsStep(c) ==
    [c EXCEPT !.snapLabels = [s \in SlotSet |-> c.mem[s].labels]]

\* A label correction that merges the spec's labels into the live ones.
LabelsStepMerge(c, ws, s, failAt) ==
    UpdateTimes(c, Cardinality(DriftedKeys(ws.labels, c.snapLabels[s])),
                s, KeyOf(ws.name, s), "labels", ws.labels @@ c.mem[s].labels,
                "labels", failAt)

\* A label correction that counts changed rules as drift and writes the
\* rules of the administrator tier with the labels.
LabelsStepResetsRules(c, ws, s, failAt) ==
    LET rules == IF s \in {"adminRole", "editorRole", "viewerRole"}
                 THEN <<PolicyRule(AdminVerbs)>> ELSE c.mem[s].rules
        n     == Cardinality(DriftedKeys(ws.labels, c.snapLabels[s]))
    IN  UpdateTimes([c EXCEPT !.mem = [@ EXCEPT ![s].rules = rules]],
                    IF c.mem[s].rules # rules /\ n = 0 THEN 1 ELSE n,
                    s, KeyOf(ws.name, s), "labels", ws.labels, "labels", failAt)

LabelsStep(c, ws, s, failAt) ==
    UpdateTimes(c, Cardinality(DriftedKeys(ws.labels, c.snapLabels[s])),
                s, KeyOf(ws.name, s), "labels", ws.labels, "labels", failAt)

SnapAnnotationsStep(c) ==
    [c EXCEPT !.snapAnnotations = [s \in SlotSet |-> c.mem[s].annotations]]

AnnotationsStep(c, ws, s, failAt) ==
    UpdateTimes(c, Cardinality(DriftedKeys(ws.annotations, c.snapAnnotations[s])),
                s, KeyOf(ws.name, s), "annotations", ws.annotations, "annotations",
                failAt)

\* A subject correction that also writes the spec's labels on the binding.
SubjectStepSetsLabels(c, ws, s, tier, failAt) ==
    LET rb == c.mem[s]
    IN  IF Len(rb.subjects) = 0 THEN Return(c, "panic", NoRequeue)
        ELSE IF ws.users[tier] # rb.subjects[1].Name
        THEN UpdateTimes([c EXCEPT !.mem = [@ EXCEPT ![s].labels = ws.labels]],
                         1, s, KeyOf(ws.name, s), "subjects",
                         [rb.subjects EXCEPT ![1].Name = ws.users[tier]],
                         "subjects", failAt)
        ELSE c

\* Subjects[0] of a binding without subjects: index out of range.
SubjectStep(c, ws, s, tier, failAt) ==
    LET rb == c.mem[s]
    IN  IF Len(rb.subjects) = 0 THEN Return(c, "panic", NoRequeue)
        ELSE IF ws.users[tier] # rb.subjects[1].Name
        THEN UpdateTimes(c, 1, s, KeyOf(ws.name, s), "subjects",
                         [rb.subjects EXCEPT ![1].Name = ws.users[tier]],
                         "subjects", failAt)
        ELSE c

\* A check of a hard limit that corrects nothing.
QuotaStepNoUpdate(c, ws, field, resourceName, failAt) ==
    IF ~ParseQuantity(ws.resources[field]).ok THEN Return(c, "err", NoRequeue)
    ELSE c

\* One hard limit.  A ResourceQuota stored without hard limits is read with
\* a nil map: reading an entry gives the zero Quantity, assigning one panics.
QuotaStep(c, ws, field, resourceName, failAt) ==
    LET hard == c.mem["resourceQuota"].hard
        live == IF resourceName \in DOMAIN hard THEN hard[resourceName]
                ELSE ZeroQuantity
    IN  IF ~ParseQuantity(ws.resources[field]).ok THEN Return(c, "err", NoRequeue)
        ELSE IF Cmp(ws.resources[field], live) # 0
        THEN IF DOMAIN hard = {} THEN Return(c, "panic", NoRequeue)
             ELSE UpdateTimes(c, 1, "resourceQuota", KeyOf(ws.name, "resourceQuota"),
                              "hard", (resourceName :> ws.resources[field]) @@ hard,
                              resourceName, failAt)
        ELSE c

\* The steps with the cpu limit corrected before the memory limit.
PassStepsCpuFirst ==
    [i \in 1..Len(Slots) |-> [op |-> "ensure", slot |-> Slots[i], arg |-> ""]]
    \o << [op |-> "snapLabels", slot |-> "", arg |-> ""],
          [op |-> "labels", slot |-> "namespace", arg |-> ""],
          [op |-> "labels", slot |-> "resourceQuota", arg |-> ""],
          [op |-> "labels", slot |-> "adminRole", arg |-> ""],
          [op |-> "labels", slot |-> "editorRole", arg |-> ""],
          [op |-> "labels", slot |-> "viewerRole", arg |-> ""],
          [op |-> "snapAnnotations", slot |-> "", arg |-> ""],
          [op |-> "annotations", slot |-> "namespace", arg |-> ""],
          [op |-> "annotations", slot |-> "resourceQuota", arg |-> ""],
          [op |-> "subject", slot |-> "adminRoleBinding", arg |-> "admin"],
          [op |-> "subject", slot |-> "editorRoleBinding", arg |-> "editor"],
          [op |-> "subject", slot |-> "viewerRoleBinding", arg |-> "viewer"],
          [op |-> "quota", slot |-> ResourceCPU, arg |-> "cpu"],
          [op |-> "quota", slot |-> ResourceMemory, arg |-> "memory"],
          [op |-> "quota", slot |-> ResourceRequestsStorage, arg |-> "disk"],
          [op |-> "done", slot |-> "", arg |-> ""] >>

\* The steps after the Workspace was loaded, in the code's order.
PassSteps ==
    [i \in 1..Len(Slots) |-> [op |-> "ensure", slot |-> Slots[i], arg |-> ""]]
    \o << [op |-> "snapLabels", slot |-> "", arg |-> ""],
          [op |-> "labels", slot |-> "namespace", arg |-> ""],
          [op |-> "labels", slot |-> "resourceQuota", arg |-> ""],
          [op |-> "labels", slot |-> "adminRole", arg |-> ""],
          [op |-> "labels", slot |-> "editorRole", arg |-> ""],
          [op |-> "labels", slot |-> "viewerRole", arg |-> ""],
          [op |-> "snapAnnotations", slot |-> "", arg |-> ""],
          [op |-> "annotations", slot |-> "namespace", arg |-> ""],
          [op |-> "annotations", slot |-> "resourceQuota", arg |-> ""],
          [op |-> "subject", slot |-> "adminRoleBinding", arg |-> "admin"],
          [op |-> "subject", slot |-> "editorRoleBinding", arg |-> "editor"],
          [op |-> "subject", slot |-> "viewerRoleBinding", arg |-> "viewer"],
          [op |-> "quota", slot |-> ResourceMemory, arg |-> "memory"],
          [op |-> "quota", slot |-> ResourceCPU, arg |-> "cpu"],
          [op |-> "quota", slot |-> ResourceRequestsStorage, arg |-> "disk"],
          [op |-> "done", slot |-> "", arg |-> ""] >>

Step(c, id, ws, step, failAt) ==
    CASE step.op = "ensure"          -> EnsureStep(c, id, ws, step.slot, failAt)
      [] step.op = "snapLabels"      -> SnapLabelsStep(c)
      [] step.op = "labels"          -> LabelsStep(c, ws, step.slot, failAt)
      [] step.op = "snapAnnotations" -> SnapAnnotationsStep(c)
      [] step.op = "annotations"     -> AnnotationsStep(c, ws, step.slot, failAt)
      [] step.op = "subject"         -> SubjectStep(c, ws, step.slot, step.arg, failAt)
      [] step.op = "quota"           -> QuotaStep(c, ws, step.arg, step.slot, failAt)
      [] step.op = "done"            ->
            [Return(c, "ok", RequeueAfter) EXCEPT !.full = TRUE]

RECURSIVE RunSteps(_, _, _, _, _)
RunSteps(c, i, id, ws, failAt) ==
    IF c.status # "run" \/ i > Len(PassSteps) THEN c
    ELSE RunSteps(Step(c, id, ws, PassSteps[i], failAt), i + 1, id, ws, failAt)

\* A pass that schedules a re-trigger when the Workspace is not found.
WorkspaceNotFoundRequeue(c) ==
    Return(c, "ok", RequeueAfter)

\* A pass that removes every sub-resource when the Workspace is not found.
WorkspaceNotFoundCascade(c) ==
    Return([c EXCEPT !.st = [k \in {} |-> ZeroObject]], "ok", NoRequeue)

\* The result of the pass when the Workspace id is not found.
WorkspaceNotFound(c) ==
    Return(c, "ok", NoRequeue)

\* A pass that also removes the objects the Workspace owns under a name that
\* is no longer its spec.name.
RunPassCollecting(wss, st, id, failAt) ==
    LET c0 == [NewContext(st) EXCEPT !.calls = 1]
    IN  IF failAt = 1
        THEN Return([c0 EXCEPT !.injected = TRUE], "err", NoRequeue)
        ELSE IF id \notin DOMAIN wss THEN WorkspaceNotFound(c0)
        ELSE LET c    == RunSteps([c0 EXCEPT !.found = TRUE], 1, id, wss[id], failAt)
                 keep == {k \in DOMAIN c.st :
                            \/ k.namespace = wss[id].name
                            \/ k.name = wss[id].name
                            \/ \A i \in 1..Len(c.st[k].ownerReferences) :
                                   c.st[k].ownerReferences[i].Name # id}
             IN  [c EXCEPT !.st = [k \in keep |-> c.st[k]]]

\* Reconcile(ctx, req) on the workspaces ws and the store st, with store call
\* number failAt failing (0: none).
RunPass(wss, st, id, failAt) ==
    LET c0 == [NewContext(st) EXCEPT !.calls = 1]
    IN  IF failAt = 1
        THEN Return([c0 EXCEPT !.injected = TRUE], "err", NoRequeue)
        ELSE IF id \notin DOMAIN wss THEN WorkspaceNotFound(c0)
        ELSE RunSteps([c0 EXCEPT !.found = TRUE], 1, id, wss[id], failAt)

\* The store calls a pass makes when none fails: the calls that can fail.
Calls(wss, st, id) ==
    RunPass(wss, st, id, 0).calls

\* Reconcile(ctx, req) while another writer stores the objects of racer, each
\* right after this pass was told that it is absent.
RunPassRaced(wss, st, id, racer) ==
    LET c0 == [NewContext(st) EXCEPT !.calls = 1, !.racer = racer]
    IN  IF id \notin DOMAIN wss THEN WorkspaceNotFound(c0)
        ELSE RunSteps([c0 EXCEPT !.found = TRUE], 1, id, wss[id], 0)

---------------------------------------------------------------------------
(* The values the environment draws from. *)

\* The ids a Workspace may have.
WsIds == {"notepad", "other"}

Names == {"test", "dev"}

\* The sample Workspace of the README, with quantities this model parses.
SampleSpec ==
    [name        |-> "test",
     labels      |-> ("deployment" :> "minikube") @@ ("environment" :> "test"),
     annotations |-> ("task.crd" :> "vedant"),
     resources   |-> [cpu    |-> <<"1", "0", "0", "0", "m">>,
                      memory |-> <<"1", "K", "i">>,
                      disk   |-> <<"1", "k">>],
     users       |-> [admin |-> "userAdmin", editor |-> "user2", viewer |-> "user3"]]

\* The label maps an external actor may leave on an object: all labels
\* removed, one removed, one changed, a label of its own added, and both.
LabelMaps ==
    {EmptyMap,
     ("environment" :> "test"),
     ("deployment" :> "x") @@ ("environment" :> "test"),
     ("deployment" :> "minikube") @@ ("environment" :> "test") @@ ("extra" :> "e"),
     ("deployment" :> "x") @@ ("environment" :> "test") @@ ("extra" :> "e")}

\* The annotation maps an external actor may leave on an object.
AnnotationMaps ==
    {EmptyMap,
     ("task.crd" :> "x"),
     ("task.crd" :> "vedant") @@ ("extra" :> "e")}

\* The sample's cpu, memory and disk in another notation.
OtherNotation ==
    (ResourceCPU :> <<"1">>) @@ (ResourceMemory :> <<"1", "0", "2", "4">>)
    @@ (ResourceRequestsStorage :> <<"1", "0", "0", "0">>)

HardNames == {ResourceCPU, ResourceMemory, ResourceRequestsStorage}

\* The hard-limit maps an external actor may leave: one entry rewritten (the
\* same amount in another notation, or another amount), one entry removed, or
\* the map removed.
HardEdits(hard) ==
    {(r :> q) @@ hard : r \in HardNames, q \in {<<"2">>}}
    \cup {(r :> OtherNotation[r]) @@ hard : r \in HardNames}
    \cup {[r \in DOMAIN hard \ {x} |-> hard[r]] : x \in DOMAIN hard}
    \cup {EmptyMap}

\* The subject lists an external actor may leave on a binding.
SubjectLists(subjects) ==
    {<<>>, <<Subject("intruder")>>, subjects \o <<Subject("second")>>}

\* The quantity strings a user may write in a field of a Workspace: the same
\* amount in another notation, another amount, and one that does not parse.
SpecQuantities(resourceName) ==
    {OtherNotation[resourceName], <<"2">>, <<"a", "b", "c">>}

\* The rules an external actor may leave on a Role.
RuleEdits ==
    {<<>>, <<PolicyRule(<<"get">>)>>}

\* The objects another writer may store under the identity of slot s of the
\* Workspace id: what a concurrent pass for the same Workspace creates, and
\* a bare object of an external actor.
RaceObjects(id, ws, s) ==
    {Define(id, ws, s).obj, ZeroObject}

\* An object of slot s as an external actor creates it, with content of its
\* own: a label, and the hard limits, rules or subject of its kind.
ForeignObject(s) ==
    LET meta == [ZeroObject EXCEPT !.labels = ("extra" :> "e")]
    IN  CASE s = "resourceQuota" ->
               [meta EXCEPT !.hard = [r \in HardNames |-> <<"2">>]]
          [] s \in {"adminRole", "editorRole", "viewerRole"} ->
               [meta EXCEPT !.rules = <<PolicyRule(<<"get">>)>>]
          [] s \in {"adminRoleBinding", "editorRoleBinding", "viewerRoleBinding"} ->
               [meta EXCEPT !.subjects = <<Subject("intruder")>>,
                            !.roleRef = RoleRef("foreign")]
          [] OTHER -> meta

\* The objects an external actor may create under the identity of slot s:
\* a bare one, and one with content of its own.  Neither has an ownership
\* link.
ForeignObjects(s) ==
    {ZeroObject, ForeignObject(s)}

\* A second Workspace with the spec.name of the sample and other labels.
CollidingSpecs ==
    {[SampleSpec EXCEPT !.labels = ("deployment" :> "kind") @@ ("environment" :> "test")]}

\* The Workspaces that differ from ws in one field other than spec.name, or
\* in the three quantities at once.
SpecEdits(ws) ==
    {[ws EXCEPT !.labels = m] :
            m \in {("deployment" :> "kind") @@ ("environment" :> "prod"),
                   ("deployment" :> "minikube")}}
    \cup {[ws EXCEPT !.annotations = m] : m \in {("task.crd" :> "other")}}
    \cup {[ws EXCEPT !.users.admin = u] : u \in {"userAdmin", "userB"}}
    \cup {[ws EXCEPT !.resources.cpu = q] : q \in SpecQuantities(ResourceCPU)}
    \cup {[ws EXCEPT !.resources.memory = q] : q \in SpecQuantities(ResourceMemory)}
    \cup {[ws EXCEPT !.resources.disk = q] :
            q \in SpecQuantities(ResourceRequestsStorage)}
    \cup {[ws EXCEPT !.resources = [cpu |-> <<"2">>, memory |-> <<"2">>,
                                    disk |-> <<"2">>]]}

---------------------------------------------------------------------------
(* The state machine. *)

\* The keys of the eight sub-resources of a Workspace named name.
Identities(name) ==
    {KeyOf(name, s) : s \in SlotSet}

\* The three quantities of the Workspace parse.
ValidSpec(ws) ==
    /\ ParseQuantity(ws.resources.cpu).ok
    /\ ParseQuantity(ws.resources.memory).ok
    /\ ParseQuantity(ws.resources.disk).ok

\* Every key of desired is in live with the same value.
MapMatches(desired, live) ==
    \A k \in DOMAIN desired : k \in DOMAIN live /\ live[k] = desired[k]

\* The hard limit is present and is the amount the Workspace asks for.
HardMatches(q, hard, resourceName) ==
    /\ resourceName \in DOMAIN hard
    /\ ParseQuantity(hard[resourceName]).milli = ParseQuantity(q).milli

\* The state the reconciler works towards for the Workspace ws: the eight
\* sub-resources exist and every tracked field has the Workspace's value.
Converged(ws, st) ==
    /\ ValidSpec(ws)
    /\ Identities(ws.name) \subseteq DOMAIN st
    /\ \A s \in {"namespace", "resourceQuota", "adminRole", "editorRole", "viewerRole"} :
          MapMatches(ws.labels, st[KeyOf(ws.name, s)].labels)
    /\ \A s \in {"namespace", "resourceQuota"} :
          MapMatches(ws.annotations, st[KeyOf(ws.name, s)].annotations)
    /\ \A i \in 1..Len(Tiers) :
          LET rb == st[KeyOf(ws.name, Tiers[i] \o "RoleBinding")]
          IN  Len(rb.subjects) > 0 /\ rb.subjects[1].Name = ws.users[Tiers[i]]
    /\ LET hard == st[KeyOf(ws.name, "resourceQuota")].hard
       IN  /\ HardMatches(ws.resources.cpu, hard, ResourceCPU)
           /\ HardMatches(ws.resources.memory, hard, ResourceMemory)
           /\ HardMatches(ws.resources.disk, hard, ResourceRequestsStorage)

\* Every Workspace that exists is converged, and one exists.
AllConverged ==
    /\ DOMAIN workspaces # {}
    /\ \A id \in DOMAIN workspaces : Converged(workspaces[id], store)

NoKey == [kind |-> "", namespace |-> "", name |-> ""]

EmptyStore == [k \in {} |-> ZeroObject]

NoPass ==
    [id |-> "", found |-> FALSE, status |-> "none", requeue |-> NoRequeue,
     full |-> FALSE, writes |-> <<>>, kind |-> "none", after |-> "none",
     afterWrites |-> 0]

NoExt ==
    [kind |-> "none", key |-> NoKey, converged |-> FALSE, from |-> "",
     before |-> EmptyStore]

Init ==
    /\ workspaces = ("notepad" :> SampleSpec)
    /\ store = EmptyStore
    /\ lastPass = NoPass
    /\ quiet = FALSE
    /\ lastExt = NoExt
    /\ coldPasses = 0
    /\ extLeft = MaxExt
    /\ passTick = FALSE

\* What a pass was: it met a store error, it created a sub-resource, it ran
\* to the end of drift correction, or it stopped before (the Workspace is
\* absent, a quantity does not parse, a panic).
PassKind(c) ==
    IF c.injected \/ \E i \in 1..Len(c.writes) : c.writes[i].err # ""
    THEN "storeError"
    ELSE IF \E i \in 1..Len(c.writes) : c.writes[i].op = "create" THEN "create"
    ELSE IF c.full THEN "full"
    ELSE "stopped"

\* The record a pass leaves: what it returned and the writes it issued.
\* after and afterWrites tell what the pass right before it was and how many
\* writes that one issued, when that one was for the same id and no external
\* action came between the two ("none" otherwise).
PassRecord(id, c) ==
    [id |-> id, found |-> c.found, status |-> c.status, requeue |-> c.requeue,
     full |-> c.full, writes |-> c.writes, kind |-> PassKind(c),
     after       |-> IF quiet /\ lastPass.id = id THEN lastPass.kind ELSE "none",
     afterWrites |-> IF quiet /\ lastPass.id = id THEN Len(lastPass.writes) ELSE 0]

\* One pass of Reconcile for the Workspace id, run to completion; store call
\* number failAt fails with a transient error (0: no call fails; a number
\* beyond the calls the pass makes is no input).
Reconcile(id, failAt) ==
    LET c == RunPass(workspaces, store, id, failAt)
    IN  /\ failAt = 0 \/ c.injected
        /\ store' = c.st
        /\ lastPass' = PassRecord(id, c)
        /\ quiet' = TRUE
        /\ coldPasses' = IF coldPasses < 0 \/ failAt # 0 THEN -1
                         ELSE IF ~c.found THEN coldPasses
                         ELSE IF coldPasses < MaxPasses THEN coldPasses + 1
                         ELSE MaxPasses
        /\ passTick' = IF failAt = 0 THEN ~passTick ELSE passTick
        /\ UNCHANGED <<workspaces, lastExt, extLeft>>

\* What every external action does besides its own change: it is counted
\* and remembered, with whether it found the system converged.
External(kind, key) ==
    /\ extLeft > 0
    /\ extLeft' = extLeft - 1
    /\ quiet' = FALSE
    /\ lastExt' = [kind |-> kind, key |-> key, converged |-> AllConverged,
                   from |-> "", before |-> EmptyStore]
    /\ coldPasses' = -1
    /\ UNCHANGED <<lastPass, passTick>>

\* An external actor deletes one object.
ExtDelete(key) ==
    /\ External("delete", key)
    /\ key \in DOMAIN store
    /\ store' = [k \in DOMAIN store \ {key} |-> store[k]]
    /\ UNCHANGED workspaces

\* An external actor rewrites the labels of one object.
ExtSetLabels(key, m) ==
    /\ External("labels", key)
    /\ key \in DOMAIN store
    /\ m # store[key].labels
    /\ store' = [store EXCEPT ![key].labels = m]
    /\ UNCHANGED workspaces

\* An external actor rewrites the annotations of one object.
ExtSetAnnotations(key, m) ==
    /\ External("annotations", key)
    /\ key \in DOMAIN store
    /\ m # store[key].annotations
    /\ store' = [store EXCEPT ![key].annotations = m]
    /\ UNCHANGED workspaces

\* An external actor rewrites the hard limits of a ResourceQuota.
ExtSetHard(key, hard) ==
    /\ External("hard", key)
    /\ key \in DOMAIN store
    /\ key.kind = "ResourceQuota"
    /\ hard \in HardEdits(store[key].hard)
    /\ hard # store[key].hard
    /\ store' = [store EXCEPT ![key].hard = hard]
    /\ UNCHANGED workspaces

\* An external actor rewrites the subjects of a RoleBinding.
ExtSetSubjects(key, subjects) ==
    /\ External("subjects", key)
    /\ key \in DOMAIN store
    /\ key.kind = "RoleBinding"
    /\ subjects \in SubjectLists(store[key].subjects)
    /\ store' = [store EXCEPT ![key].subjects = subjects]
    /\ UNCHANGED workspaces

\* An external actor creates the object obj under the identity of slot s of
\* the Workspace id, which is absent; a namespaced object needs its
\* Namespace.
ExtCreate(id, s, obj) ==
    LET key == KeyOf(workspaces[id].name, s)
    IN  /\ External("create", key)
        /\ key \notin DOMAIN store
        /\ s # "namespace" => KeyOf(workspaces[id].name, "namespace") \in DOMAIN store
        /\ store' = (key :> obj) @@ store
        /\ UNCHANGED workspaces

\* An external actor rewrites the rules of a Role.
ExtSetRules(key, rules) ==
    /\ External("rules", key)
    /\ key \in DOMAIN store
    /\ key.kind = "Role"
    /\ rules # store[key].rules
    /\ store' = [store EXCEPT ![key].rules = rules]
    /\ UNCHANGED workspaces

\* One pass of Reconcile for the Workspace id that loses a race: it is told
\* that the sub-resource of slot s is absent, and another writer stores obj
\* under that identity before the pass's create arrives.
ReconcileRaced(id, s, obj) ==
    LET key == KeyOf(workspaces[id].name, s)
        c   == RunPassRaced(workspaces, store, id, key :> obj)
    IN  /\ extLeft > 0
        /\ extLeft' = extLeft - 1
        /\ key \notin DOMAIN store
        /\ key \in DOMAIN c.st
        /\ store' = c.st
        /\ lastPass' = PassRecord(id, c)
        /\ quiet' = TRUE
        /\ lastExt' = [kind |-> "race", key |-> key, converged |-> AllConverged,
                       from |-> "", before |-> EmptyStore]
        /\ coldPasses' = -1
        /\ UNCHANGED <<workspaces, passTick>>

\* A user creates a second Workspace, once the sub-resources of the first
\* are in place.
WsCreate(id, ws) ==
    /\ External("wsCreate", NoKey)
    /\ id \notin DOMAIN workspaces
    /\ AllConverged
    /\ workspaces' = (id :> ws) @@ workspaces
    /\ UNCHANGED store

\* A user edits one field of a Workspace other than spec.name.
WsUpdate(id, ws) ==
    /\ External("wsUpdate", NoKey)
    /\ id \in DOMAIN workspaces
    /\ ws \in SpecEdits(workspaces[id])
    /\ ws # workspaces[id]
    /\ ws.name = workspaces[id].name
    /\ workspaces' = [workspaces EXCEPT ![id] = ws]
    /\ UNCHANGED store

\* A user changes spec.name of a Workspace.  The passes are counted anew
\* from here, and the store as it is now is remembered.
WsRename(id, name) ==
    /\ extLeft > 0
    /\ extLeft' = extLeft - 1
    /\ id \in DOMAIN workspaces
    /\ name # workspaces[id].name
    /\ quiet' = FALSE
    /\ lastExt' = [kind |-> "rename", key |-> NoKey, converged |-> AllConverged,
                   from |-> workspaces[id].name, before |-> store]
    /\ coldPasses' = 0
    /\ workspaces' = [workspaces EXCEPT ![id].name = name]
    /\ UNCHANGED <<store, lastPass, passTick>>

\* A user deletes a Workspace.
WsDelete(id) ==
    /\ External("wsDelete", NoKey)
    /\ id \in DOMAIN workspaces
    /\ workspaces' = [i \in DOMAIN workspaces \ {id} |-> workspaces[i]]
    /\ UNCHANGED store

\* The Workspaces passes are triggered for: those that exist, and the one of
\* Init after it was deleted.
Triggered ==
    DOMAIN workspaces \cup {"notepad"}

Next ==
    \/ \E id \in Triggered : \E failAt \in 0..Calls(workspaces, store, id) :
          Reconcile(id, failAt)
    \/ \E id \in DOMAIN workspaces, s \in SlotSet :
          \E obj \in RaceObjects(id, workspaces[id], s) : ReconcileRaced(id, s, obj)
    \/ \E key \in DOMAIN store, rules \in RuleEdits : ExtSetRules(key, rules)
    \/ \E id \in DOMAIN workspaces, s \in SlotSet :
          \E obj \in ForeignObjects(s) : ExtCreate(id, s, obj)
    \/ \E id \in WsIds, ws \in CollidingSpecs : WsCreate(id, ws)
    \/ \E key \in DOMAIN store : ExtDelete(key)
    \/ \E key \in DOMAIN store, m \in LabelMaps : ExtSetLabels(key, m)
    \/ \E key \in DOMAIN store, m \in AnnotationMaps : ExtSetAnnotations(key, m)
    \/ \E key \in DOMAIN store : \E hard \in HardEdits(store[key].hard) :
          ExtSetHard(key, hard)
    \/ \E key \in DOMAIN store : \E subjects \in SubjectLists(store[key].subjects) :
          ExtSetSubjects(key, subjects)
    \/ \E id \in DOMAIN workspaces : \E ws \in SpecEdits(workspaces[id]) :
          WsUpdate(id, ws)
    \/ \E id \in DOMAIN workspaces, name \in Names : WsRename(id, name)
    \/ \E id \in DOMAIN workspaces : WsDelete(id)

Spec == Init /\ [][Next]_vars

\* The step that flips passTick: among the steps of Next, those of
\* Reconcile(id, 0), which can always be taken.
PassWithoutError ==
    passTick' = ~passTick

\* The passes keep being re-triggered: a pass in which no store call fails
\* is not postponed for ever.
SpecFair ==
    /\ Init
    /\ [][Next]_vars
    /\ WF_passTick(PassWithoutError)

---------------------------------------------------------------------------
(* The claims. *)

\* The eight identities for spec.name = "test", in the order of cold start.
ColdStartOrder ==
    << [kind |-> "Namespace", namespace |-> "", name |-> "test"],
       [kind |-> "ResourceQuota", namespace |-> "test", name |-> "test-quota"],
       [kind |-> "Role", namespace |-> "test", name |-> "test-admin"],
       [kind |-> "Role", namespace |-> "test", name |-> "test-editor"],
       [kind |-> "Role", namespace |-> "test", name |-> "test-viewer"],
       [kind |-> "RoleBinding", namespace |-> "test", name |-> "test-admin-rb"],
       [kind |-> "RoleBinding", namespace |-> "test", name |-> "test-editor-rb"],
       [kind |-> "RoleBinding", namespace |-> "test", name |-> "test-viewer-rb"] >>

\* The writes are one successful create, of key.
CreatesOnly(writes, key) ==
    /\ Len(writes) = 1
    /\ writes[1].op = "create"
    /\ writes[1].key = key
    /\ writes[1].err = ""

\* C1: cold start.  From the empty store, with the valid sample Workspace,
\* no external action and no store error, the n-th pass issues exactly one
\* write, the create of the n-th identity in the fixed order, for n = 1..8;
\* after n passes exactly the first n identities exist, so all eight exist
\* after the 8th pass and not before; later passes write nothing.
C1_ColdStart ==
    (lastExt.kind = "none" /\ coldPasses >= 0) =>
        /\ coldPasses < 8 =>
              DOMAIN store = {ColdStartOrder[i] : i \in 1..coldPasses}
        /\ coldPasses >= 8 =>
              DOMAIN store = {ColdStartOrder[i] : i \in 1..8}
        /\ (coldPasses >= 1 /\ coldPasses <= 8) =>
              CreatesOnly(lastPass.writes, ColdStartOrder[coldPasses])
        /\ coldPasses > 8 => lastPass.writes = <<>>

\* C1 witness: the 8th pass of a cold start has run and all eight exist.
C1_Witness ==
    /\ lastExt.kind = "none"
    /\ coldPasses = 8
    /\ Cardinality(DOMAIN store) = 8
    /\ lastPass.kind = "create"

\* A pass issued a create.
HasCreate(c) ==
    \E i \in 1..Len(c.writes) : c.writes[i].op = "create"

\* C2: idempotence, for the passes it holds for.  In every reachable state,
\* when a first pass issues no create and none of its store calls fails,
\* a second pass run right after it on the store the first one left, with
\* the Workspace unchanged, issues no create and no update, whichever of its
\* store calls fails.
C2_Idempotence ==
    \A id \in WsIds :
        LET c1 == RunPass(workspaces, store, id, 0)
        IN  ~HasCreate(c1) =>
                \A failAt \in 0..Calls(workspaces, c1.st, id) :
                    RunPass(workspaces, c1.st, id, failAt).writes = <<>>

\* C2 witness: two passes in succession that both end in a panic; the
\* second has issued no write.
C2_Witness ==
    /\ quiet
    /\ lastPass.after = "stopped"
    /\ lastPass.status = "panic"
    /\ lastPass.writes = <<>>

\* C2 as stated: of two passes in succession with no external action in
\* between and no store error in either, the second issues no write.
C2_AsStated ==
    (/\ quiet
     /\ lastPass.after \notin {"none", "storeError"}
     /\ lastPass.kind # "storeError") => lastPass.writes = <<>>

\* C3: convergence is a fixed point.  In every reachable state, after a pass
\* that ran all of drift correction and returned without error, a pass run
\* right after it on the store it left issues no create and no update and
\* leaves the store identical, whichever of its store calls fails.
C3_FixedPoint ==
    \A id \in WsIds :
        LET c1 == RunPass(workspaces, store, id, 0)
        IN  (c1.full /\ c1.status = "ok") =>
                \A failAt \in 0..Calls(workspaces, c1.st, id) :
                    LET c2 == RunPass(workspaces, c1.st, id, failAt)
                    IN  c2.writes = <<>> /\ c2.st = c1.st

\* C3 witness: a pass ran all of drift correction and issued updates, and
\* the pass right after it issued none.
C3_Witness ==
    /\ quiet
    /\ lastPass.after = "full"
    /\ lastPass.afterWrites > 0
    /\ lastPass.kind = "full"
    /\ lastPass.writes = <<>>

\* The shape of a sub-resource of the Workspace id with the spec ws: labels
\* and annotations of the spec, the ownership link, and the payload of its
\* kind.
CanonicalShape(obj, id, ws, s) ==
    /\ obj.labels = ws.labels
    /\ obj.annotations = ws.annotations
    /\ obj.ownerReferences = <<[Kind |-> "Workspace", Name |-> id, Controller |-> TRUE]>>
    /\ s = "resourceQuota" =>
          /\ DOMAIN obj.hard = {"cpu", "memory", "requests.storage"}
          /\ obj.hard["cpu"] = ws.resources.cpu
          /\ obj.hard["memory"] = ws.resources.memory
          /\ obj.hard["requests.storage"] = ws.resources.disk
    /\ s = "adminRole" =>
          /\ Len(obj.rules) = 1
          /\ obj.rules[1].Verbs =
                <<"get", "list", "watch", "create", "update", "patch", "delete">>
    /\ s = "editorRole" =>
          /\ Len(obj.rules) = 1
          /\ obj.rules[1].Verbs = <<"get", "list", "watch", "create", "update", "patch">>
    /\ s = "viewerRole" =>
          /\ Len(obj.rules) = 1
          /\ obj.rules[1].Verbs = <<"get", "list", "watch">>
    /\ \A i \in 1..Len(Tiers) :
          s = Tiers[i] \o "RoleBinding" =>
              /\ Len(obj.subjects) = 1
              /\ obj.subjects[1].Kind = "User"
              /\ obj.subjects[1].Name = ws.users[Tiers[i]]
              /\ obj.roleRef.Kind = "Role"
              /\ obj.roleRef.Name = ws.name \o "-" \o Tiers[i]

\* C4: self-healing.  In every reachable converged state, for each of the
\* eight sub-resources: when that one is deleted and one pass runs with no
\* store call failing, the pass issues exactly one write, the create of that
\* resource with the canonical shape for the current spec, and every sibling
\* is in the store as it was.
C4_SelfHealing ==
    \A id \in DOMAIN workspaces :
        Converged(workspaces[id], store) =>
            \A s \in SlotSet :
                LET ws  == workspaces[id]
                    key == KeyOf(ws.name, s)
                    st  == [k \in DOMAIN store \ {key} |-> store[k]]
                    c   == RunPass(workspaces, st, id, 0)
                IN  /\ CreatesOnly(c.writes, key)
                    /\ CanonicalShape(c.writes[1].obj, id, ws, s)
                    /\ DOMAIN c.st = DOMAIN store
                    /\ c.st[key] = c.writes[1].obj
                    /\ \A k \in DOMAIN st : c.st[k] = st[k]

\* C4 witness: an external actor deleted a RoleBinding of a converged
\* system and the next pass created it again.
C4_Witness ==
    /\ lastExt.kind = "delete"
    /\ lastExt.converged
    /\ lastExt.key.kind = "RoleBinding"
    /\ quiet
    /\ lastPass.after = "none"
    /\ CreatesOnly(lastPass.writes, lastExt.key)
    /\ lastExt.key \in DOMAIN store

\* C5 as stated: eventual convergence.  With passes that keep being
\* re-triggered, and external actions and store errors that cease, the system
\* reaches and stays in a state where every Workspace with valid quantities
\* has its eight sub-resources, each tracked field matching the spec.
C5_EventualConvergence ==
    <>[](\A id \in DOMAIN workspaces :
            ValidSpec(workspaces[id]) => Converged(workspaces[id], store))

\* The ids a pass may be triggered for with no Workspace behind them.
AbsentIds ==
    (WsIds \cup {"other"}) \ DOMAIN workspaces

\* C6: spec-absent is a successful no-op.  In every reachable state, a pass
\* for an id with no Workspace returns success with no re-trigger, reads no
\* sub-resource, issues no write and leaves the store as it was; so the
\* sub-resources of a deleted Workspace stay exactly as they were.
C6_SpecAbsentNoOp ==
    \A id \in AbsentIds :
        LET c == RunPass(workspaces, store, id, 0)
        IN  /\ c.status = "ok"
            /\ c.requeue = NoRequeue
            /\ c.reads = <<>>
            /\ c.writes = <<>>
            /\ c.st = store

\* C6 witness: after a cold start the Workspace was deleted and one more
\* pass has run; the eight sub-resources are in the store.
C6_Witness ==
    /\ lastExt.kind = "wsDelete"
    /\ lastExt.converged
    /\ quiet
    /\ ~lastPass.found
    /\ lastPass.status = "ok"
    /\ lastPass.requeue = NoRequeue
    /\ DOMAIN store = {ColdStartOrder[i] : i \in 1..8}

\* A step of a pass: the only steps that leave extLeft as it is.
PassStep ==
    extLeft' = extLeft

\* C7: the core never removes anything.  Every step of a pass, whatever its
\* outcome, leaves the Workspaces as they are and every object of the store
\* in the store, and its writes are creates and updates only; an object
\* leaves the store only by a step of an external actor.
C7_NeverRemoves ==
    [][PassStep =>
          /\ workspaces' = workspaces
          /\ DOMAIN store \subseteq DOMAIN store'
          /\ \A i \in 1..Len(lastPass'.writes) :
                lastPass'.writes[i].op \in {"create", "update"}]_vars

\* C7 witness: the namespace was deleted by an external actor and a later
\* pass, finding it absent, created it again; the Workspace is still there.
C7_Witness ==
    /\ lastExt.kind = "delete"
    /\ lastExt.key.kind = "Namespace"
    /\ lastExt.key \in DOMAIN store
    /\ lastPass.kind = "create"
    /\ lastPass.id \in DOMAIN workspaces

\* C8: renaming orphans.  After spec.name was changed from A to B in a
\* system converged on A, no pass writes to an object derived from A, each
\* of them stays in the store as it was at the change, and once eight passes
\* have run with no store error the eight sub-resources derived from B exist
\* beside them.
C8_RenamingOrphans ==
    (lastExt.kind = "rename" /\ lastExt.converged) =>
        /\ \A k \in Identities(lastExt.from) :
              k \in DOMAIN store /\ store[k] = lastExt.before[k]
        /\ quiet =>
              \A i \in 1..Len(lastPass.writes) :
                  lastPass.writes[i].key \notin Identities(lastExt.from)
        /\ \A id \in DOMAIN workspaces :
              coldPasses >= 8 => Identities(workspaces[id].name) \subseteq DOMAIN store

\* C8 witness: the Workspace was renamed from test to dev after convergence
\* and both sets of eight sub-resources exist.
C8_Witness ==
    /\ lastExt.kind = "rename"
    /\ lastExt.converged
    /\ lastExt.from = "test"
    /\ coldPasses >= 8
    /\ Cardinality(DOMAIN store) = 16
    /\ [kind |-> "Namespace", namespace |-> "", name |-> "test"] \in DOMAIN store
    /\ [kind |-> "Namespace", namespace |-> "", name |-> "dev"] \in DOMAIN store

\* The store after the value of the label k of the object key was changed
\* to v.
MutateLabel(st, key, k, v) ==
    [st EXCEPT ![key].labels = (k :> v) @@ @]

\* After one pass with no failing store call, run on the store where a label
\* of the spec was changed on the object of slot s, the labels of that object
\* are the spec's.
LabelCorrected(id, s) ==
    LET ws  == workspaces[id]
        key == KeyOf(ws.name, s)
    IN  \A k \in DOMAIN ws.labels :
            LET c == RunPass(workspaces, MutateLabel(store, key, k, "mutated"), id, 0)
            IN  c.st[key].labels = ws.labels

\* C9: drift correction accuracy, for the resources it holds for.  In every
\* reachable state with all eight sub-resources present: when the value of a
\* label of the spec is changed on the Namespace, the ResourceQuota or one of
\* the three Roles to a value that is not the spec's, then after one pass
\* with no failing store call the labels of that object are the spec's label
\* map exactly.
C9_DriftCorrection ==
    \A id \in DOMAIN workspaces :
        Identities(workspaces[id].name) \subseteq DOMAIN store =>
            \A s \in {"namespace", "resourceQuota", "adminRole", "editorRole",
                      "viewerRole"} : LabelCorrected(id, s)

\* C9 witness: an external actor changed the labels of a Role and the next
\* pass wrote the spec's label map back.
C9_Witness ==
    /\ lastExt.kind = "labels"
    /\ lastExt.key.kind = "Role"
    /\ quiet
    /\ lastPass.after = "none"
    /\ \E i \in 1..Len(lastPass.writes) :
          /\ lastPass.writes[i].op = "update"
          /\ lastPass.writes[i].field = "labels"
          /\ lastPass.writes[i].key = lastExt.key
          /\ lastPass.writes[i].err = ""
    /\ \A id \in DOMAIN workspaces : store[lastExt.key].labels = workspaces[id].labels

\* C9 as stated: the same for each of the eight sub-resources.
C9_AsStated ==
    \A id \in DOMAIN workspaces :
        Identities(workspaces[id].name) \subseteq DOMAIN store =>
            \A s \in SlotSet : LabelCorrected(id, s)

\* The value of a live hard limit as the pass reads it: of the entry, or
\* zero when there is none.
LiveMilli(hard, resourceName) ==
    IF resourceName \in DOMAIN hard THEN ParseQuantity(hard[resourceName]).milli
    ELSE 0

\* The pass issued an update of the ResourceQuota for the limit resourceName.
UpdatesLimit(c, resourceName) ==
    \E i \in 1..Len(c.writes) :
        /\ c.writes[i].op = "update"
        /\ c.writes[i].key.kind = "ResourceQuota"
        /\ c.writes[i].field = resourceName

BindingSlot(tier) ==
    tier \o "RoleBinding"

\* The pass issued an update of the object key.
UpdatesKey(c, key) ==
    \E i \in 1..Len(c.writes) : c.writes[i].op = "update" /\ c.writes[i].key = key

\* What one pass with no failing store call does to the binding of tier
\* when the Workspace asks for the user u: a first subject of another name
\* is renamed to u and nothing else of the binding changes; a binding whose
\* first subject is the spec's gets no update and stays as it is.
SubjectReplaced(id, tier, u) ==
    LET ws  == [workspaces[id] EXCEPT !.users[tier] = u]
        c   == RunPass([workspaces EXCEPT ![id] = ws], store, id, 0)
        key == KeyOf(ws.name, BindingSlot(tier))
        old == store[key]
        new == c.st[key]
    IN  (Len(old.subjects) > 0 /\ old.subjects[1].Name # u) =>
            /\ new = [old EXCEPT !.subjects[1].Name = u]
            /\ \A i \in 1..Len(Tiers) :
                  LET k2 == KeyOf(ws.name, BindingSlot(Tiers[i]))
                  IN  (/\ Tiers[i] # tier
                       /\ Len(store[k2].subjects) > 0
                       /\ store[k2].subjects[1].Name = ws.users[Tiers[i]]) =>
                          ~UpdatesKey(c, k2) /\ c.st[k2] = store[k2]

\* C11 as stated: single-subject replacement.  In every reachable state
\* with the eight sub-resources present, for each tier and each user the
\* Workspace may ask for: when the first subject of the tier's binding has
\* another name, one pass with no failing store call renames exactly that
\* entry and leaves the RoleRef, the labels, the annotations, the further
\* subjects and the matching other bindings as they were.
C11_SingleSubjectReplacement ==
    \A id \in DOMAIN workspaces :
        Identities(workspaces[id].name) \subseteq DOMAIN store =>
            \A tier \in {"admin", "editor", "viewer"} :
                \A u \in {"userB", workspaces[id].users[tier]} :
                    SubjectReplaced(id, tier, u)

C13_RequeueIndependentOfOutcome ==
    \A id \in DOMAIN workspaces :
        \A failAt \in 0..Calls(workspaces, store, id) :
            LET c == RunPass(workspaces, store, id, failAt)
            IN  (c.found /\ c.status \in {"ok", "err"}) => c.requeue = 3

\* The sub-resources other than the ResourceQuota are as the spec ws asks:
\* the Namespace, the three Roles and the three RoleBindings exist, with the
\* spec's labels on Namespace and Roles, the spec's annotations on the
\* Namespace, and the spec's user as first subject of each binding.
OthersConverged(ws, st) ==
    /\ Identities(ws.name) \ {KeyOf(ws.name, "resourceQuota")} \subseteq DOMAIN st
    /\ \A s \in {"namespace", "adminRole", "editorRole", "viewerRole"} :
          MapMatches(ws.labels, st[KeyOf(ws.name, s)].labels)
    /\ MapMatches(ws.annotations, st[KeyOf(ws.name, "namespace")].annotations)
    /\ \A i \in 1..Len(Tiers) :
          LET rb == st[KeyOf(ws.name, BindingSlot(Tiers[i]))]
          IN  Len(rb.subjects) > 0 /\ rb.subjects[1].Name = ws.users[Tiers[i]]

\* C14 as stated: a malformed quantity is localized.  With passes that keep
\* being re-triggered, a Workspace with a quantity that does not parse has,
\* from some point on, all its sub-resources other than the ResourceQuota
\* converged to the spec, whether the ResourceQuota exists or not.
C14_MalformedQuantityLocalized ==
    <>[](\A id \in DOMAIN workspaces :
            ~ValidSpec(workspaces[id]) => OthersConverged(workspaces[id], store))

\* The store after the writes that succeeded, applied in order.
RECURSIVE ApplyWrites(_, _)
ApplyWrites(st, writes) ==
    IF writes = <<>> THEN st
    ELSE LET w == Head(writes)
         IN  ApplyWrites(IF w.err # "" THEN st ELSE (w.key :> w.obj) @@ st,
                         Tail(writes))

\* C15: abort on write failure.  In every reachable state and for every
\* store call that may fail: a create or update that fails is the last
\* write the pass issues and the pass returns an error; the store the pass
\* leaves holds every write that succeeded before, and nothing else changed.
C15_AbortOnWriteFailure ==
    \A id \in DOMAIN workspaces :
        \A failAt \in 0..Calls(workspaces, store, id) :
            LET c == RunPass(workspaces, store, id, failAt)
            IN  /\ \A i \in 1..Len(c.writes) :
                      c.writes[i].err # "" =>
                          /\ i = Len(c.writes)
                          /\ c.status = "err"
                /\ c.st = ApplyWrites(store, c.writes)

\* C15 witness: a pass issued an update that succeeded and then one that
\* failed; the store holds the first one's object.
C15_Witness ==
    /\ quiet
    /\ lastPass.kind = "storeError"
    /\ Len(lastPass.writes) >= 2
    /\ lastPass.writes[1].err = ""
    /\ lastPass.writes[Len(lastPass.writes)].err # ""
    /\ store[lastPass.writes[1].key] = lastPass.writes[1].obj

\* C16 as stated: two outcomes only.  In every reachable state, also after
\* external actions, and for every store call that may fail, a pass ends
\* with success or with one error, never abnormally; a success is the end
\* of the step sequence: the Workspace is absent, a create stopped the pass,
\* or drift correction ran to its end.
C16_TwoOutcomesOnly ==
    \A id \in WsIds :
        \A failAt \in 0..Calls(workspaces, store, id) :
            LET c == RunPass(workspaces, store, id, failAt)
            IN  /\ c.status \in {"ok", "err"}
                /\ c.status = "ok" =>
                      \/ ~c.found
                      \/ c.full
                      \/ Len(c.writes) = 1 /\ c.writes[1].op = "create"
                                           /\ c.writes[1].err = ""

\* The eight identities derived from the name n, written out.
DerivedIdentities(n) ==
    {[kind |-> "Namespace", namespace |-> "", name |-> n],
     [kind |-> "ResourceQuota", namespace |-> n, name |-> n \o "-quota"],
     [kind |-> "Role", namespace |-> n, name |-> n \o "-admin"],
     [kind |-> "Role", namespace |-> n, name |-> n \o "-editor"],
     [kind |-> "Role", namespace |-> n, name |-> n \o "-viewer"],
     [kind |-> "RoleBinding", namespace |-> n, name |-> n \o "-admin-rb"],
     [kind |-> "RoleBinding", namespace |-> n, name |-> n \o "-editor-rb"],
     [kind |-> "RoleBinding", namespace |-> n, name |-> n \o "-viewer-rb"]}

\* The identities a pass for id may write: those of the spec.name of the
\* Workspace it loads, none when there is no Workspace.
Writable(id) ==
    IF id \in DOMAIN workspaces THEN DerivedIdentities(workspaces[id].name) ELSE {}

\* C17: writes are confined to the derived identities.  In every reachable
\* state and for every store call that may fail, every create and update of
\* a pass targets one of the eight identities derived from the spec.name of
\* the Workspace the pass loaded; every other object of the store, such as
\* a namespace no Workspace names and what is inside it, is left as it was,
\* and no object appears under another key.
C17_WritesConfined ==
    \A id \in WsIds :
        \A failAt \in 0..Calls(workspaces, store, id) :
            LET c == RunPass(workspaces, store, id, failAt)
            IN  /\ \A i \in 1..Len(c.writes) : c.writes[i].key \in Writable(id)
                /\ DOMAIN c.st \subseteq DOMAIN store \cup Writable(id)
                /\ \A k \in DOMAIN store \ Writable(id) :
                      k \in DOMAIN c.st /\ c.st[k] = store[k]

\* C17 witness: after the Workspace was renamed, a pass wrote an object of
\* the new name while the namespace of the old name, which no Workspace
\* names any more, is in the store as it was.
C17_Witness ==
    /\ lastExt.kind = "rename"
    /\ quiet
    /\ lastPass.writes # <<>>
    /\ \A id \in DOMAIN workspaces :
          /\ lastPass.writes[1].key \in DerivedIdentities(workspaces[id].name)
          /\ lastExt.from # workspaces[id].name
    /\ LET old == [kind |-> "Namespace", namespace |-> "", name |-> lastExt.from]
       IN  /\ old \in DOMAIN store
           /\ old \in DOMAIN lastExt.before
           /\ store[old] = lastExt.before[old]

\* The elements of a sequence.
Range(seq) ==
    {seq[i] : i \in 1..Len(seq)}

\* The slot of the identity key of the Workspace named n.
SlotOfKey(n, key) ==
    CHOOSE s \in SlotSet : KeyOf(n, s) = key

\* C18: canonical shape at creation.  In every reachable state and for
\* every store call that may fail, the object of every create a pass issues
\* has the spec's labels and annotations and the payload of its kind: the
\* quota's hard limits are exactly cpu, memory and requests.storage with the
\* spec's cpu, memory and disk; a Role has the verbs of its tier; a
\* RoleBinding has one subject, the spec's user of its tier, and refers to
\* the Role of its tier.  The verbs of the tiers are nested: the editor's
\* are the admin's without delete, and the viewer's are among the editor's.
C18_CanonicalShapeAtCreation ==
    /\ \A id \in DOMAIN workspaces :
          \A failAt \in 0..Calls(workspaces, store, id) :
              LET c  == RunPass(workspaces, store, id, failAt)
                  ws == workspaces[id]
              IN  \A i \in 1..Len(c.writes) :
                      c.writes[i].op = "create" =>
                          /\ c.writes[i].key \in DerivedIdentities(ws.name)
                          /\ CanonicalShape(c.writes[i].obj, id, ws,
                                            SlotOfKey(ws.name, c.writes[i].key))
    /\ Len(AdminVerbs) = 7
    /\ Range(EditorVerbs) = Range(AdminVerbs) \ {"delete"}
    /\ Range(ViewerVerbs) = {"get", "list", "watch"}
    /\ Range(ViewerVerbs) \subseteq Range(EditorVerbs)

\* C18 witness: a pass created the ResourceQuota, stored with the three
\* hard limits of the spec.
C18_Witness ==
    /\ lastPass.kind = "create"
    /\ lastPass.writes[1].key.kind = "ResourceQuota"
    /\ lastPass.writes[1].key \in DOMAIN store
    /\ DOMAIN store[lastPass.writes[1].key].hard = {"cpu", "memory", "requests.storage"}
    /\ \A id \in DOMAIN workspaces :
          store[lastPass.writes[1].key].hard["cpu"] = workspaces[id].resources.cpu

\* The eight identities derived from the name n, in the fixed order.
IdentityOrder(n) ==
    << [kind |-> "Namespace", namespace |-> "", name |-> n],
       [kind |-> "ResourceQuota", namespace |-> n, name |-> n \o "-quota"],
       [kind |-> "Role", namespace |-> n, name |-> n \o "-admin"],
       [kind |-> "Role", namespace |-> n, name |-> n \o "-editor"],
       [kind |-> "Role", namespace |-> n, name |-> n \o "-viewer"],
       [kind |-> "RoleBinding", namespace |-> n, name |-> n \o "-admin-rb"],
       [kind |-> "RoleBinding", namespace |-> n, name |-> n \o "-editor-rb"],
       [kind |-> "RoleBinding", namespace |-> n, name |-> n \o "-viewer-rb"] >>

\* The pass c, run on the store st for the name n, issued one create and
\* nothing else: of the first identity in the fixed order that is absent,
\* after it read the earlier ones, which are present.
CreatesFirstAbsent(c, st, n) ==
    /\ Len(c.writes) = 1
    /\ \E k \in 1..8 :
          /\ c.writes[1].key = IdentityOrder(n)[k]
          /\ IdentityOrder(n)[k] \notin DOMAIN st
          /\ \A j \in 1..(k - 1) : IdentityOrder(n)[j] \in DOMAIN st
          /\ c.reads = SubSeq(IdentityOrder(n), 1, k)
    /\ c.writes[1].key.namespace # "" =>
          [kind |-> "Namespace", namespace |-> "", name |-> n] \in DOMAIN st

\* C19: shape of a pass.  In every reachable state and for every store call
\* that may fail, the writes of a pass are either one create and no update,
\* or updates only.  The create is of the first identity in the fixed order
\* that the pass found absent, all earlier ones found present; updates are
\* issued only by a pass that read all eight and found them present.  So a
\* namespaced object is never created by a pass that found the namespace
\* absent.
C19_ShapeOfAPass ==
    \A id \in DOMAIN workspaces :
        \A failAt \in 0..Calls(workspaces, store, id) :
            LET c == RunPass(workspaces, store, id, failAt)
                n == workspaces[id].name
            IN  /\ HasCreate(c) => CreatesFirstAbsent(c, store, n)
                /\ (\E i \in 1..Len(c.writes) : c.writes[i].op = "update") =>
                      /\ ~HasCreate(c)
                      /\ Range(IdentityOrder(n)) \subseteq DOMAIN store
                      /\ c.reads = IdentityOrder(n)

\* C19 witness: a pass on a store with the eight sub-resources issued two
\* updates or more and no create.
C19_Witness ==
    /\ lastPass.found
    /\ Len(lastPass.writes) >= 2
    /\ \A i \in 1..Len(lastPass.writes) :
          lastPass.writes[i].op = "update" /\ lastPass.writes[i].err = ""
    /\ \A id \in DOMAIN workspaces :
          Range(IdentityOrder(workspaces[id].name)) \subseteq DOMAIN store

\* The store call that failed in the pass c was a get: a call failed and no
\* write carries an error.
GetFailed(c) ==
    c.injected /\ \A i \in 1..Len(c.writes) : c.writes[i].err = ""

\* C20: only not-found drives creation.  In every reachable state: a pass
\* in which the get of the Workspace or of a sub-resource fails with an
\* error other than not-found returns the error at once, with no store call
\* after it, no write in the whole pass and the store as it was; and every
\* create a pass issues is of an identity that is not in the store, the one
\* the pass read last.
C20_OnlyNotFoundCreates ==
    \A id \in WsIds :
        \A failAt \in 0..Calls(workspaces, store, id) :
            LET c == RunPass(workspaces, store, id, failAt)
            IN  /\ GetFailed(c) =>
                      /\ c.status = "err"
                      /\ c.calls = failAt
                      /\ c.writes = <<>>
                      /\ c.st = store
                /\ \A i \in 1..Len(c.writes) :
                      c.writes[i].op = "create" =>
                          /\ c.writes[i].key \notin DOMAIN store
                          /\ c.reads # <<>>
                          /\ c.reads[Len(c.reads)] = c.writes[i].key

\* C20 witness: a pass loaded the Workspace, met a failing get of a
\* sub-resource with part of the sub-resources present, and wrote nothing.
C20_Witness ==
    /\ quiet
    /\ lastPass.found
    /\ lastPass.kind = "storeError"
    /\ lastPass.status = "err"
    /\ lastPass.writes = <<>>
    /\ Cardinality(DOMAIN store) \in 1..7

\* The keys of the Namespace and of the ResourceQuota of a Workspace.
NamespaceKey(ws) == KeyOf(ws.name, "namespace")

QuotaKey(ws) == KeyOf(ws.name, "resourceQuota")

\* The pass issues no write, leaves the store as it is and returns the error
\* without a re-trigger.
AbortsBeforeAnyWrite(c, st) ==
    /\ c.writes = <<>>
    /\ c.st = st
    /\ c.status = "err"
    /\ c.requeue = NoRequeue

\* C21: when the ResourceQuota is absent and a quantity of the Workspace does
\* not parse, a pass that comes to the quota - whichever store call fails, or
\* none - issues no create for the quota and no other write and returns an
\* error; without a failing call it asks the store for nothing after the
\* quota, and the pass after it does the same, so the quota and the
\* sub-resources ordered after it stay absent.
C21_ParseFailureAbortsBeforeWrite ==
    \A id \in DOMAIN workspaces :
        LET ws == workspaces[id]
            c0 == RunPass(workspaces, store, id, 0)
        IN  (/\ ~ValidSpec(ws)
             /\ QuotaKey(ws) \notin DOMAIN store
             /\ QuotaKey(ws) \in Range(c0.reads))
            => /\ \A failAt \in 0..c0.calls :
                      AbortsBeforeAnyWrite(RunPass(workspaces, store, id, failAt), store)
               /\ c0.reads = <<NamespaceKey(ws), QuotaKey(ws)>>
               /\ AbortsBeforeAnyWrite(RunPass(workspaces, c0.st, id, 0), store)

\* Two passes in a row stopped at the quota of a Workspace with a quantity
\* that does not parse, and wrote nothing.
C21_Witness ==
    \E id \in DOMAIN workspaces :
        /\ ~ValidSpec(workspaces[id])
        /\ NamespaceKey(workspaces[id]) \in DOMAIN store
        /\ QuotaKey(workspaces[id]) \notin DOMAIN store
        /\ quiet
        /\ lastPass.id = id
        /\ lastPass.kind = "stopped"
        /\ lastPass.status = "err"
        /\ lastPass.writes = <<>>
        /\ lastPass.after = "stopped"

\* The corrections of a pass, each the field it writes and the slot it
\* writes it on, in the order of the code.
DriftOrder ==
    << [field |-> "labels", slot |-> "namespace"],
       [field |-> "labels", slot |-> "resourceQuota"],
       [field |-> "labels", slot |-> "adminRole"],
       [field |-> "labels", slot |-> "editorRole"],
       [field |-> "labels", slot |-> "viewerRole"],
       [field |-> "annotations", slot |-> "namespace"],
       [field |-> "annotations", slot |-> "resourceQuota"],
       [field |-> "subjects", slot |-> "adminRoleBinding"],
       [field |-> "subjects", slot |-> "editorRoleBinding"],
       [field |-> "subjects", slot |-> "viewerRoleBinding"],
       [field |-> ResourceMemory, slot |-> "resourceQuota"],
       [field |-> ResourceCPU, slot |-> "resourceQuota"],
       [field |-> ResourceRequestsStorage, slot |-> "resourceQuota"] >>

\* The same with the hard limits as the claim orders them: cpu, memory, disk.
DriftOrderCpuFirst ==
    [i \in 1..Len(DriftOrder) |->
        IF i = 11 THEN DriftOrder[12] ELSE IF i = 12 THEN DriftOrder[11]
        ELSE DriftOrder[i]]

\* The places in order of the correction the update w makes (none: it makes
\* none of them).
PlaceIn(order, n, w) ==
    {i \in 1..Len(order) :
        order[i] = [field |-> w.field, slot |-> SlotOfKey(n, w.key)]}

\* The updates of writes are corrections of order and come in its order.
UpdatesFollow(order, n, writes) ==
    /\ \A i \in 1..Len(writes) :
          writes[i].op = "update" => PlaceIn(order, n, writes[i]) # {}
    /\ \A i, j \in 1..Len(writes) :
          (i < j /\ writes[i].op = "update" /\ writes[j].op = "update")
          => \A p \in PlaceIn(order, n, writes[i]) :
                \A q \in PlaceIn(order, n, writes[j]) : p <= q

\* The pass c issued the writes of the pass c0 up to one that failed: the
\* same objects on the same keys, all but the last of them stored.
StoppedWithin(c, c0, st) ==
    /\ Len(c.writes) <= Len(c0.writes)
    /\ \A i \in 1..Len(c.writes) :
          /\ c.writes[i].key = c0.writes[i].key
          /\ c.writes[i].obj = c0.writes[i].obj
          /\ c.writes[i].field = c0.writes[i].field
          /\ c.writes[i].err # "" => i = Len(c.writes)
    /\ c.st = ApplyWrites(st, c.writes)

\* C22: order of drift correction.  In every reachable state the updates of
\* a pass come in this order: labels of Namespace, ResourceQuota, admin,
\* editor and viewer Role; annotations of Namespace and ResourceQuota; the
\* subject name of the admin, editor and viewer RoleBinding; then the hard
\* limits memory, cpu, disk.  When a store call fails, the pass has issued the
\* same updates as the pass without failure up to the failing one and none
\* after it, and the earlier ones are stored.
C22_OrderOfDriftCorrection ==
    \A id \in DOMAIN workspaces :
        LET c0 == RunPass(workspaces, store, id, 0)
        IN  /\ UpdatesFollow(DriftOrder, workspaces[id].name, c0.writes)
            /\ \A failAt \in 1..c0.calls :
                  StoppedWithin(RunPass(workspaces, store, id, failAt), c0, store)

\* C22 witness: a pass corrected the memory limit, and its correction of the
\* cpu limit failed; the disk limit, which drifts too, was not written.
C22_Witness ==
    /\ quiet
    /\ lastPass.kind = "storeError"
    /\ Len(lastPass.writes) = 2
    /\ lastPass.writes[1].field = ResourceMemory
    /\ lastPass.writes[1].err = ""
    /\ lastPass.writes[2].field = ResourceCPU
    /\ lastPass.writes[2].err # ""
    /\ \E id \in DOMAIN workspaces :
          LET hard == store[QuotaKey(workspaces[id])].hard
          IN  /\ lastPass.id = id
              /\ hard[ResourceMemory] = workspaces[id].resources.memory
              /\ hard[ResourceCPU] # workspaces[id].resources.cpu
              /\ hard[ResourceRequestsStorage] # workspaces[id].resources.disk

\* C22 as stated: the hard limits are corrected in the order cpu, memory,
\* disk.
C22_AsStated ==
    \A id \in DOMAIN workspaces :
        UpdatesFollow(DriftOrderCpuFirst, workspaces[id].name,
                      RunPass(workspaces, store, id, 0).writes)

\* The pass c left the labels and annotations of every RoleBinding of st and
\* the annotations of every Role of st as they were, and every update it
\* issued on one of them wrote these fields as they were.
ExcludedFieldsKept(c, st) ==
    /\ \A key \in DOMAIN st :
          /\ key \in DOMAIN c.st
          /\ key.kind = "RoleBinding" => c.st[key].labels = st[key].labels
          /\ key.kind \in {"RoleBinding", "Role"}
                => c.st[key].annotations = st[key].annotations
    /\ \A i \in 1..Len(c.writes) :
          LET w == c.writes[i]
          IN  (w.op = "update" /\ w.key \in DOMAIN st)
              => /\ w.key.kind = "RoleBinding" => w.obj.labels = st[w.key].labels
                 /\ w.key.kind \in {"RoleBinding", "Role"}
                       => w.obj.annotations = st[w.key].annotations

\* C23: excluded drift targets.  In every reachable state, also when these
\* fields differ from the maps of the Workspace, a pass - whichever store
\* call fails, or none - leaves the labels and the annotations of every
\* existing RoleBinding and the annotations of every existing Role as they
\* are; so does the pass that follows a change of a user name in the
\* Workspace, whose subject update writes the binding's labels and
\* annotations as read.
C23_ExcludedDriftTargets ==
    \A id \in DOMAIN workspaces :
        /\ \A failAt \in 0..Calls(workspaces, store, id) :
              ExcludedFieldsKept(RunPass(workspaces, store, id, failAt), store)
        /\ \A tier \in DOMAIN workspaces[id].users :
              ExcludedFieldsKept(
                  RunPass([workspaces EXCEPT ![id].users[tier] = "userB"],
                          store, id, 0), store)

\* C23 witness: a pass ran drift correction to its end and issued updates,
\* and a RoleBinding still has labels that differ from those of the
\* Workspace.
C23_Witness ==
    \E id \in DOMAIN workspaces :
        LET ws == workspaces[id]
        IN  /\ quiet
            /\ lastPass.id = id
            /\ lastPass.kind = "full"
            /\ lastPass.writes # <<>>
            /\ ~MapMatches(ws.labels, store[KeyOf(ws.name, "adminRoleBinding")].labels)

\* The slots whose labels, and those whose annotations, a pass corrects.
LabelSlots == {"namespace", "resourceQuota", "adminRole", "editorRole", "viewerRole"}

AnnotationSlots == {"namespace", "resourceQuota"}

\* The updates of field the pass c issued on the object key.
FieldUpdates(c, key, field) ==
    {i \in 1..Len(c.writes) :
        /\ c.writes[i].op = "update"
        /\ c.writes[i].key = key
        /\ c.writes[i].field = field}

\* The live map field of the object key has every key of desired with its
\* value: the pass c issued no update of the field, and the map is as it
\* was, additional keys included.
ExtraKeysKept(c, st, key, field, desired) ==
    MapMatches(desired, st[key][field])
    => /\ FieldUpdates(c, key, field) = {}
       /\ c.st[key][field] = st[key][field]

\* A key of desired is missing or different in the live map: the pass c
\* replaced the live map by desired.
DriftingMapReplaced(c, st, key, field, desired) ==
    ~MapMatches(desired, st[key][field])
    => /\ FieldUpdates(c, key, field) # {}
       /\ c.st[key][field] = desired

\* C24: keys only present live do not count as drift.  In every reachable
\* state in which the eight sub-resources exist, for the labels of Namespace,
\* ResourceQuota and the three Roles and the annotations of Namespace and
\* ResourceQuota: when every key of the spec's map is in the live map with
\* the same value, no pass - whichever store call fails, or none - issues an
\* update of that map, and the live map, with its additional keys, survives
\* the pass; when a spec key is missing or different, the pass without a
\* failing store call replaces the live map by the spec's map.
C24_ExtraKeysAreNoDrift ==
    \A id \in DOMAIN workspaces :
        LET ws == workspaces[id]
        IN  Identities(ws.name) \subseteq DOMAIN store
            => \A failAt \in 0..Calls(workspaces, store, id) :
                  LET c == RunPass(workspaces, store, id, failAt)
                  IN  /\ \A s \in LabelSlots :
                            /\ ExtraKeysKept(c, store, KeyOf(ws.name, s), "labels",
                                             ws.labels)
                            /\ failAt = 0
                                  => DriftingMapReplaced(c, store, KeyOf(ws.name, s),
                                                         "labels", ws.labels)
                      /\ \A s \in AnnotationSlots :
                            /\ ExtraKeysKept(c, store, KeyOf(ws.name, s),
                                             "annotations", ws.annotations)
                            /\ failAt = 0
                                  => DriftingMapReplaced(c, store, KeyOf(ws.name, s),
                                                         "annotations", ws.annotations)

\* C24 witness: an external actor added a label of its own to a sub-resource
\* whose labels are corrected; the pass after it ran to the end of drift
\* correction without a write, and the label is still there.
C24_Witness ==
    /\ lastExt.kind = "labels"
    /\ lastExt.key.kind # "RoleBinding"
    /\ quiet
    /\ lastPass.kind = "full"
    /\ lastPass.writes = <<>>
    /\ lastExt.key \in DOMAIN store
    /\ "extra" \in DOMAIN store[lastExt.key].labels
    /\ \E id \in DOMAIN workspaces :
          /\ lastPass.id = id
          /\ "extra" \notin DOMAIN workspaces[id].labels

\* The Roles of st have in the store the pass c left the rules they had in
\* st, and every update the pass issued on one of them wrote them as read.
RulesKept(c, st) ==
    /\ \A key \in DOMAIN st :
          key.kind = "Role" => key \in DOMAIN c.st /\ c.st[key].rules = st[key].rules
    /\ \A i \in 1..Len(c.writes) :
          LET w == c.writes[i]
          IN  (w.op = "update" /\ w.key.kind = "Role" /\ w.key \in DOMAIN st)
              => w.obj.rules = st[w.key].rules

\* The rules of the Role of a slot, as the projector of the slot sets them.
TierRules(s) ==
    CASE s = "adminRole"  -> <<PolicyRule(AdminVerbs)>>
      [] s = "editorRole" -> <<PolicyRule(EditorVerbs)>>
      [] s = "viewerRole" -> <<PolicyRule(ViewerVerbs)>>

\* With the Role of slot s deleted from the store, the next pass creates it
\* with the rules of its tier.
RecreatedWithTierRules(id, s) ==
    LET ws  == workspaces[id]
        key == KeyOf(ws.name, s)
        c   == RunPass(workspaces, [k \in DOMAIN store \ {key} |-> store[k]], id, 0)
    IN  /\ key \in DOMAIN c.st
        /\ c.st[key].rules = TierRules(s)

\* C25: Role rules are never drift-corrected.  In every reachable state, also
\* after an external actor changed the rules of a Role, a pass - whichever
\* store call fails, or none - leaves the rules of every existing Role as
\* they are; so does a pass that updates the labels of the Roles, run after a
\* change of the labels of the Workspace.  When the eight sub-resources exist
\* and a Role is deleted, the next pass creates it with the rules of its tier.
C25_RoleRulesNeverCorrected ==
    \A id \in DOMAIN workspaces :
        LET ws == workspaces[id]
        IN  /\ \A failAt \in 0..Calls(workspaces, store, id) :
                  RulesKept(RunPass(workspaces, store, id, failAt), store)
            /\ RulesKept(RunPass([workspaces EXCEPT ![id].labels =
                                     ("deployment" :> "relabelled")],
                                 store, id, 0), store)
            /\ (ValidSpec(ws) /\ Identities(ws.name) \subseteq DOMAIN store)
                  => \A s \in {"adminRole", "editorRole", "viewerRole"} :
                        RecreatedWithTierRules(id, s)

\* C25 witness: an external actor changed the rules of a Role; two passes
\* have run drift correction to its end since, and the rules are as the
\* actor left them, not those of the tier.
C25_Witness ==
    /\ lastExt.kind = "rules"
    /\ quiet
    /\ lastPass.kind = "full"
    /\ lastPass.after = "full"
    /\ lastExt.key \in DOMAIN store
    /\ \E id \in DOMAIN workspaces :
          /\ lastPass.id = id
          /\ \E s \in {"adminRole", "editorRole", "viewerRole"} :
                /\ lastExt.key = KeyOf(workspaces[id].name, s)
                /\ store[lastExt.key].rules # TierRules(s)

\* The pass issued a create for the object key.
CreatesKey(c, key) ==
    \E i \in 1..Len(c.writes) : c.writes[i].op = "create" /\ c.writes[i].key = key

\* A pass for the Workspace id is told that the sub-resource of slot s is
\* absent, and another writer stores obj under that identity before the
\* create of the pass arrives.  The store holds the one object of the other
\* writer and is otherwise unchanged; the create of the pass got
\* AlreadyExists and is its only write; the pass returned the error, without
\* a re-trigger.  The pass after it finds the object, issues no create for
\* it, and goes on: to the next sub-resource, or to drift correction after
\* the last.
LosesRace(id, s, obj) ==
    LET ws  == workspaces[id]
        key == KeyOf(ws.name, s)
        c   == RunPassRaced(workspaces, store, id, key :> obj)
        c2  == RunPass(workspaces, c.st, id, 0)
    IN  (key \notin DOMAIN store /\ key \in DOMAIN c.st)
        => /\ c.st = (key :> obj) @@ store
           /\ Len(c.writes) = 1
           /\ c.writes[1].op = "create"
           /\ c.writes[1].key = key
           /\ c.writes[1].err = "AlreadyExists"
           /\ c.status = "err"
           /\ c.requeue = NoRequeue
           /\ key \in Range(c2.reads)
           /\ ~CreatesKey(c2, key)
           /\ IF s = Slots[Len(Slots)] THEN ~HasCreate(c2)
              ELSE Len(c2.reads) > Len(c.reads)

\* C26: racing creates.  In every reachable state, for every sub-resource
\* and for the object of a concurrent pass for the same Workspace as well as
\* for a bare object of an external actor: when the object is stored between
\* the existence check of a pass and its create, one object exists under the
\* identity, the create gets AlreadyExists, which is the error of the pass and
\* its last write, and the next pass finds the object and proceeds past it.
C26_RacingCreates ==
    \A id \in DOMAIN workspaces :
        \A s \in SlotSet :
            \A obj \in RaceObjects(id, workspaces[id], s) : LosesRace(id, s, obj)

\* C26 witness: a pass lost the race for a sub-resource and returned the
\* error after its one write; the pass after it found the sub-resource of
\* the other writer, issued no create for it and ended without error.
C26_Witness ==
    /\ lastExt.kind = "race"
    /\ quiet
    /\ lastPass.after = "storeError"
    /\ lastPass.afterWrites = 1
    /\ lastPass.status = "ok"
    /\ lastExt.key \in DOMAIN store
    /\ \A i \in 1..Len(lastPass.writes) : lastPass.writes[i].key # lastExt.key

\* The two Workspaces ask for different values of a tracked field: a label or
\* an annotation both have, a user, or a quantity.
Disagree(wa, wb) ==
    \/ \E k \in DOMAIN wa.labels \cap DOMAIN wb.labels : wa.labels[k] # wb.labels[k]
    \/ \E k \in DOMAIN wa.annotations \cap DOMAIN wb.annotations :
          wa.annotations[k] # wb.annotations[k]
    \/ \E tier \in DOMAIN wa.users : wa.users[tier] # wb.users[tier]
    \/ \E r \in DOMAIN wa.resources :
          ParseQuantity(wa.resources[r]).milli # ParseQuantity(wb.resources[r]).milli

\* Passes for the Workspaces a and b, which have the same spec.name, run one
\* after the other from a store on which the pass for a runs drift correction
\* to its end: the pass for b works on the same eight identities, ends
\* without error and leaves the tracked fields with the values of b; when the
\* two disagree it issues updates, and so does the pass for a after it, which
\* leaves the values of a again.
LastWriterWins(a, b) ==
    LET wa  == workspaces[a]
        wb  == workspaces[b]
        ca  == RunPass(workspaces, store, a, 0)
        cb  == RunPass(workspaces, ca.st, b, 0)
        ca2 == RunPass(workspaces, cb.st, a, 0)
    IN  /\ Identities(wa.name) = Identities(wb.name)
        /\ (ca.full /\ ValidSpec(wb))
              => /\ cb.full
                 /\ cb.status = "ok"
                 /\ DOMAIN cb.st = DOMAIN store
                 /\ Converged(wb, cb.st)
                 /\ Disagree(wa, wb)
                       => /\ cb.writes # <<>>
                          /\ ~Converged(wa, cb.st)
                          /\ ca2.full
                          /\ ca2.status = "ok"
                          /\ ca2.writes # <<>>
                          /\ Converged(wa, ca2.st)
                          /\ ~Converged(wb, ca2.st)

\* C27: colliding specs, last writer wins.  In every reachable state with two
\* Workspaces of the same spec.name: both have the same eight identities, a
\* full pass for either ends without error and leaves the tracked fields with
\* the values of its Workspace, and when the two disagree on a tracked value
\* the passes for one and the other keep issuing updates, each undoing what
\* the other wrote.
C27_CollidingSpecs ==
    \A a \in DOMAIN workspaces :
        \A b \in DOMAIN workspaces \ {a} :
            workspaces[a].name = workspaces[b].name => LastWriterWins(a, b)

\* C27 witness: a second Workspace was created with the spec.name of the
\* first and other labels; a pass for the first, whose sub-resources had its
\* labels when the second was created, had to write them again.
C27_Witness ==
    /\ lastExt.kind = "wsCreate"
    /\ lastExt.converged
    /\ DOMAIN workspaces = {"notepad", "other"}
    /\ workspaces["notepad"].name = workspaces["other"].name
    /\ quiet
    /\ lastPass.id = "notepad"
    /\ lastPass.kind = "full"
    /\ Len(lastPass.writes) = Cardinality(LabelSlots)
    /\ Converged(workspaces["notepad"], store)
    /\ ~Converged(workspaces["other"], store)

\* The ownership link of an object to the Workspace id.
OwnerLink(id) ==
    <<[Kind |-> "Workspace", Name |-> id, Controller |-> TRUE]>>

\* What the pass c for the Workspace id did with ownership links: every
\* object it created has the link to id; every object of st is still stored,
\* with the link it had, and every update wrote the link as it was.
LinksRespected(c, st, id) ==
    /\ \A i \in 1..Len(c.writes) :
          LET w == c.writes[i]
          IN  /\ w.op = "create" => w.obj.ownerReferences = OwnerLink(id)
              /\ (w.op = "update" /\ w.key \in DOMAIN st)
                    => w.obj.ownerReferences = st[w.key].ownerReferences
    /\ \A key \in DOMAIN st :
          /\ key \in DOMAIN c.st
          /\ c.st[key].ownerReferences = st[key].ownerReferences

\* C28: ownership link.  In every reachable state - with objects created by
\* this Workspace, by another Workspace of the same spec.name, or by an
\* external actor without a link - and for every store call that may fail:
\* each object a pass creates carries the link to the Workspace the pass
\* loaded; the pass leaves the link of every existing object as it is, also
\* in the objects it updates; and no object is removed, whether the owner
\* exists or not.
C28_OwnershipLink ==
    \A id \in WsIds :
        \A failAt \in 0..Calls(workspaces, store, id) :
            LinksRespected(RunPass(workspaces, store, id, failAt), store, id)

\* C28 witness: an external actor stored a sub-resource without a link; a
\* pass that ran drift correction to its end updated it, and it still has no
\* link, while a sub-resource the Workspace created has the link to it.
C28_Witness ==
    /\ lastExt.kind = "race"
    /\ quiet
    /\ lastPass.kind = "full"
    /\ UpdatesKey(lastPass, lastExt.key)
    /\ lastExt.key \in DOMAIN store
    /\ store[lastExt.key].ownerReferences = <<>>
    /\ \E key \in DOMAIN store : store[key].ownerReferences = OwnerLink(lastPass.id)

\* C29: postcondition of a full pass.  In every reachable state, when a pass
\* in which no store call fails runs drift correction to its end, the store
\* it leaves has the eight sub-resources with every label of the Workspace on
\* Namespace, ResourceQuota and the three Roles, every annotation of the
\* Workspace on Namespace and ResourceQuota, the first subject of each
\* RoleBinding named as the Workspace's user of the tier, and the three hard
\* limits numerically equal to the Workspace's cpu, memory and disk.
C29_PostconditionOfFullPass ==
    \A id \in DOMAIN workspaces :
        LET c == RunPass(workspaces, store, id, 0)
        IN  c.full => /\ c.status = "ok"
                      /\ Converged(workspaces[id], c.st)

\* C29 witness: an external actor changed a hard limit; the pass after it
\* ran drift correction to its end with an update, and the store has the
\* values of the Workspace.
C29_Witness ==
    /\ lastExt.kind = "hard"
    /\ quiet
    /\ lastPass.kind = "full"
    /\ lastPass.writes # <<>>
    /\ lastPass.id \in DOMAIN workspaces
    /\ Converged(workspaces[lastPass.id], store)

\* The keys of desired whose value is missing or different in live.
MissingOrDifferent(desired, live) ==
    {k \in DOMAIN desired : ~(k \in DOMAIN live /\ live[k] = desired[k])}

\* The pass c issued on the object key one update of field per key of
\* desired that is missing or different in the map the pass read, and each
\* of them wrote the whole map desired.
OneUpdatePerKey(c, st, key, field, desired) ==
    /\ Cardinality(FieldUpdates(c, key, field))
          = Cardinality(MissingOrDifferent(desired, st[key][field]))
    /\ \A i \in FieldUpdates(c, key, field) : c.writes[i].obj[field] = desired

\* C30: one update per drifting key.  In every reachable state in which the
\* eight sub-resources exist, the pass in which no store call fails issues,
\* for the labels of Namespace, ResourceQuota and each Role, as many updates
\* as there are label keys of the Workspace missing or different in the
\* object as read, all writing the whole label map of the Workspace; the same
\* for the annotations of Namespace and ResourceQuota.
C30_OneUpdatePerDriftingKey ==
    \A id \in DOMAIN workspaces :
        LET ws == workspaces[id]
            c  == RunPass(workspaces, store, id, 0)
        IN  Identities(ws.name) \subseteq DOMAIN store
            => /\ \A s \in LabelSlots :
                     OneUpdatePerKey(c, store, KeyOf(ws.name, s), "labels", ws.labels)
               /\ \A s \in AnnotationSlots :
                     OneUpdatePerKey(c, store, KeyOf(ws.name, s), "annotations",
                                     ws.annotations)

\* C30 witness: a pass issued two label updates in a row on the same object,
\* both with the same object, for a Workspace with two labels.
C30_Witness ==
    /\ quiet
    /\ lastPass.id \in DOMAIN workspaces
    /\ \E i \in 1..Len(lastPass.writes) - 1 :
          /\ lastPass.writes[i].field = "labels"
          /\ lastPass.writes[i + 1] = lastPass.writes[i]
          /\ Cardinality(FieldUpdates(lastPass, lastPass.writes[i].key, "labels")) = 2
          /\ Cardinality(DOMAIN workspaces[lastPass.id].labels) = 2

\* The object key was stored by an external actor: it has no ownership link.
Foreign(st, key) ==
    key \in DOMAIN st /\ st[key].ownerReferences = <<>>

\* The two passes did the same but for the ownership links in the objects
\* they wrote: the same writes in the same order with the same outcome.
SameButLinks(c, c2) ==
    /\ c.status = c2.status
    /\ c.requeue = c2.requeue
    /\ c.reads = c2.reads
    /\ Len(c.writes) = Len(c2.writes)
    /\ \A i \in 1..Len(c.writes) :
          LET w  == c.writes[i]
              w2 == c2.writes[i]
          IN  /\ w.op = w2.op /\ w.key = w2.key /\ w.field = w2.field
              /\ w.err = w2.err
              /\ w.obj = [w2.obj EXCEPT !.ownerReferences = w.obj.ownerReferences]

\* What the passes for the Workspace id do with the foreign object key.  No
\* pass, whichever store call fails, issues a create for it or gives it a
\* link, in the store or in an update.  The pass without a failing call, when
\* the quantities parse: creates the first sub-resource that is absent,
\* linked to id; and when none is absent, runs drift correction to its end,
\* as it would if the object had the link to id, and leaves the values of
\* the Workspace in the tracked fields.
Adopted(id, key) ==
    LET ws     == workspaces[id]
        c0     == RunPass(workspaces, store, id, 0)
        linked == [store EXCEPT ![key].ownerReferences = OwnerLink(id)]
        c2     == RunPass(workspaces, linked, id, 0)
    IN  /\ \A failAt \in 0..c0.calls :
              LET c == RunPass(workspaces, store, id, failAt)
              IN  /\ ~CreatesKey(c, key)
                  /\ Foreign(c.st, key)
                  /\ \A i \in 1..Len(c.writes) :
                        c.writes[i].key = key
                           => c.writes[i].obj.ownerReferences = <<>>
        /\ SameButLinks(c0, c2)
        /\ c0.st = [c2.st EXCEPT ![key].ownerReferences = <<>>]
        /\ ValidSpec(ws)
              => IF Identities(ws.name) \subseteq DOMAIN store
                 THEN c0.full /\ Converged(ws, c0.st)
                 ELSE /\ CreatesFirstAbsent(c0, store, ws.name)
                      /\ c0.writes[1].err = ""
                      /\ c0.writes[1].obj.ownerReferences = OwnerLink(id)

\* C31 as stated: adoption of pre-existing resources.  In every reachable
\* state, for every object under a derived identity of a Workspace that an
\* external actor created: the passes take it as present and issue no create
\* for it, never give it an ownership link, create the sub-resources still
\* absent, and in drift correction overwrite its tracked fields with the
\* values of the Workspace, as for an object linked to the Workspace.
C31_AdoptionOfPreExisting ==
    \A id \in DOMAIN workspaces :
        \A key \in Identities(workspaces[id].name) :
            Foreign(store, key) => Adopted(id, key)

=============================================================================
